---------------------------- MODULE Spec2Model ----------------------------
(***************************************************************************)
(* A model of the class-file decoder of runtime_cfparser (src/parse.rs).   *)
(*                                                                         *)
(* The decoder is a chain of nom parsers.  A parser is modelled as an      *)
(* operator over a buffer b (a sequence of bytes 0..255) and an offset p   *)
(* (the number of bytes already consumed; the Rust code passes the         *)
(* remaining slice, which is the suffix of b from p).  It returns a record *)
(*   [st, pos, val, kind]                                                  *)
(* st = "Ok": pos is the offset after the parse, val the decoded value;    *)
(* st = "Error" / "Failure": nom's Err::Error / Err::Failure, kind the     *)
(*   nom ErrorKind, pos the offset of the slice stored in the error;       *)
(* st = "Panic": the Rust code panics (todo!(), index out of bounds,       *)
(*   arithmetic overflow with overflow checks on), kind says why.          *)
(***************************************************************************)
EXTENDS Integers, Sequences, FiniteSets, TLC

VARIABLES
    bytes,            \* the buffer handed to classfile_from_bytes
    overflow_checks,  \* build profile: TRUE = debug (overflow checks on)
    pc,               \* the statement of classfile_from_bytes to run next
    inputs,           \* offsets of input_1 .. input_k bound so far
    version, constant_pool, access_flags, this_class, super_class,
    interfaces, fields, methods, attributes,   \* the locals bound so far
    err,              \* the error returned, when pc = "error" or "panic"
    origin,           \* how the harness obtained this buffer
    base_len,         \* length of the buffer this one was derived from
    base_consumed,    \* bytes the decode of that buffer consumed
    base_classfile,   \* the locals the decode of that buffer returned
    parser,           \* a ClassParser: [bytes, position]
    read              \* the last call of u1, u2 or u4 on it and its result

decoded == <<version, constant_pool, access_flags, this_class, super_class,
             interfaces, fields, methods, attributes>>
harness == <<origin, base_len, base_consumed, base_classfile>>
reader == <<parser, read>>
vars == <<bytes, overflow_checks, pc, inputs, decoded, err, harness, reader>>

-----------------------------------------------------------------------------
(* Parse results *)

Ok(pos, val) == [st |-> "Ok", pos |-> pos, val |-> val, kind |-> "None"]
Error(kind, pos) == [st |-> "Error", pos |-> pos, val |-> <<>>, kind |-> kind]
Failure(kind, pos) == [st |-> "Failure", pos |-> pos, val |-> <<>>, kind |-> kind]
Panic(why, pos) == [st |-> "Panic", pos |-> pos, val |-> <<>>, kind |-> why]

Remaining(b, p) == Len(b) - p

-----------------------------------------------------------------------------
(* nom primitives, complete (non-streaming) versions *)

\* nom::number::complete::be_u8
be_u8(b, p) ==
    IF Remaining(b, p) < 1 THEN Error("Eof", p) ELSE Ok(p + 1, b[p + 1])

\* nom::number::complete::be_u16
be_u16(b, p) ==
    IF Remaining(b, p) < 2 THEN Error("Eof", p)
    ELSE Ok(p + 2, b[p + 1] * 256 + b[p + 2])

\* nom::number::complete::be_u32; the 32-bit value is kept as the pair
\* <<high 16 bits, low 16 bits>>
be_u32(b, p) ==
    IF Remaining(b, p) < 4 THEN Error("Eof", p)
    ELSE Ok(p + 4, <<b[p + 1] * 256 + b[p + 2], b[p + 3] * 256 + b[p + 4]>>)

\* nom::bytes::complete::take(n); n = <<high 16 bits, low 16 bits>> as usize
\* a variant of take that reports a short input at the end of the buffer
take_reports_the_end(n, b, p) ==
    IF n[1] = 0 /\ Remaining(b, p) >= n[2]
    THEN Ok(p + n[2], SubSeq(b, p + 1, p + n[2]))
    ELSE Error("Eof", Len(b))

take(n, b, p) ==
    IF n[1] > 0 \/ Remaining(b, p) < n[2] THEN Error("Eof", p)
    ELSE Ok(p + n[2], SubSeq(b, p + 1, p + n[2]))

\* nom::bytes::complete::tag(t): the first Len(t) bytes of the input must
\* equal t; a shorter input is ErrorKind::Tag as well
\* a tag that compares only the first half of its pattern: a variant of
\* tag under which the magic check lets CA FE xx xx through
tag_half_pattern(t, b, p) ==
    IF Remaining(b, p) >= Len(t)
       /\ SubSeq(b, p + 1, p + Len(t) \div 2) = SubSeq(t, 1, Len(t) \div 2)
    THEN Ok(p + Len(t), t)
    ELSE Error("Tag", p)

tag(t, b, p) ==
    IF Remaining(b, p) >= Len(t) /\ SubSeq(b, p + 1, p + Len(t)) = t
    THEN Ok(p + Len(t), t)
    ELSE Error("Tag", p)

\* `let (input, x) = parser(..)?; rest`: an Err (or a panic) of the parser
\* is the result, an Ok is handed to the rest of the function
Then(r, K(_)) == IF r.st # "Ok" THEN r ELSE K(r)

\* k consecutive be_u16 fields, the shape of every fixed-size record
RECURSIVE u16_fields(_, _, _, _)
u16_fields(k, b, p, acc) ==
    IF k = 0 THEN Ok(p, acc)
    ELSE Then(be_u16(b, p),
              LAMBDA r : u16_fields(k - 1, b, r.pos, Append(acc, r.val)))

-----------------------------------------------------------------------------
(* 64-bit values as the set of positions of their 1 bits *)

RECURSIVE Pow2(_)
Pow2(n) == IF n = 0 THEN 1 ELSE 2 * Pow2(n - 1)

Bits16(n) == {i \in 0..15 : (n \div Pow2(i)) % 2 = 1}

\* the bits of a u32 given as <<high 16 bits, low 16 bits>>
Bits32(w) == Bits16(w[2]) \cup {i + 16 : i \in Bits16(w[1])}

\* x << s on u64, for 0 <= s < 64: bits shifted past bit 63 are lost
Shl64(x, s) == {i + s : i \in x} \cap (0..63)

\* (high_bytes as u64) << 32 + low_bytes as u64
\* `+` binds tighter than `<<`: the shift amount is 32 + low.  A shift
\* amount >= 64 panics with overflow checks on and is masked to 6 bits
\* (wrapping_shl) with them off.
long_value(high, low, checks) ==
    LET overflow == low[1] > 0 \/ low[2] >= 32
        amount   == (32 + (low[2] % 64)) % 64
    IN  IF overflow /\ checks THEN Panic("shl_overflow", 0)
        ELSE Ok(0, Shl64(Bits32(high), amount))

-----------------------------------------------------------------------------
(* Constant pool entries: [tag, bytes, off, idx, bits]                     *)
(* bytes: the borrowed text of a Utf8 entry and off its offset in the      *)
(* buffer (the entry holds a slice of the input); idx: the 16- and 32-bit  *)
(* fields in wire order; bits: the 64-bit value of a Long or Double        *)

Entry(t, bs, idx, bits) ==
    [tag |-> t, bytes |-> bs, off |-> 0, idx |-> idx, bits |-> bits]

\* an entry made of k be_u16 fields
entry_u16(t, k, b, p) ==
    Then(u16_fields(k, b, p, <<>>), LAMBDA r : Ok(r.pos, Entry(t, <<>>, r.val, {})))

\* an entry made of one be_u32 field
entry_u32(t, b, p) ==
    Then(be_u32(b, p), LAMBDA r : Ok(r.pos, Entry(t, <<>>, <<r.val>>, {})))

constant_pool_utf8_entry_from_bytes(b, p) ==
    Then(be_u16(b, p), LAMBDA r1 :
    Then(take(<<0, r1.val>>, b, r1.pos), LAMBDA r2 :
    Ok(r2.pos, [Entry("Utf8", r2.val, <<>>, {}) EXCEPT !.off = r1.pos])))

constant_pool_integer_entry_from_bytes(b, p) == entry_u32("Integer", b, p)
constant_pool_float_entry_from_bytes(b, p) == entry_u32("Float", b, p)

\* the value of a Long or Double entry, or the panic of computing it
wide_value(t, p, input_2, high_bytes, low_bytes, v) ==
    IF v.st # "Ok" THEN Panic(v.kind, p)
    ELSE Ok(input_2, Entry(t, <<>>, <<high_bytes, low_bytes>>, v.val))

\* Long and Double share one body: two be_u32 halves, then the value
wide_entry(t, b, p, checks) ==
    Then(be_u32(b, p), LAMBDA r1 :
    Then(be_u32(b, r1.pos), LAMBDA r2 :
    wide_value(t, p, r2.pos, r1.val, r2.val, long_value(r1.val, r2.val, checks))))

constant_pool_long_entry_from_bytes(b, p, checks) == wide_entry("Long", b, p, checks)
constant_pool_double_entry_from_bytes(b, p, checks) == wide_entry("Double", b, p, checks)

constant_pool_class_entry_from_bytes(b, p) == entry_u16("Class", 1, b, p)
constant_pool_string_entry_from_bytes(b, p) == entry_u16("String", 1, b, p)
constant_pool_field_ref_entry_from_bytes(b, p) == entry_u16("FieldRef", 2, b, p)
constant_pool_method_ref_entry_from_bytes(b, p) == entry_u16("MethodRef", 2, b, p)
constant_pool_instance_method_ref_entry_from_bytes(b, p) ==
    entry_u16("InstanceMethodRef", 2, b, p)
constant_pool_name_and_type_entry_from_bytes(b, p) == entry_u16("NameAndType", 2, b, p)
constant_pool_method_type_entry_from_bytes(b, p) == entry_u16("MethodType", 1, b, p)
constant_pool_dynamic_entry_from_bytes(b, p) == entry_u16("Dynamic", 2, b, p)
constant_pool_invoke_dynamic_entry_from_bytes(b, p) == entry_u16("InvokeDynamic", 2, b, p)
constant_pool_module_entry_from_bytes(b, p) == entry_u16("Module", 1, b, p)
constant_pool_package_entry_from_bytes(b, p) == entry_u16("Package", 1, b, p)

constant_pool_method_handle_entry_from_bytes(b, p) ==
    Then(be_u8(b, p), LAMBDA r1 :
    Then(be_u16(b, r1.pos), LAMBDA r2 :
    Ok(r2.pos, Entry("MethodHandle", <<>>, <<r1.val, r2.val>>, {}))))

\* the match on the tag; bytes is the offset of the tag, input the offset
\* after it
constant_pool_entry_match(t, b, p, input_1, checks) ==
    CASE t = 1  -> constant_pool_utf8_entry_from_bytes(b, input_1)
      [] t = 3  -> constant_pool_integer_entry_from_bytes(b, input_1)
      [] t = 4  -> constant_pool_float_entry_from_bytes(b, input_1)
      [] t = 5  -> constant_pool_long_entry_from_bytes(b, input_1, checks)
      [] t = 6  -> constant_pool_double_entry_from_bytes(b, input_1, checks)
      [] t = 7  -> constant_pool_class_entry_from_bytes(b, input_1)
      [] t = 8  -> constant_pool_string_entry_from_bytes(b, input_1)
      [] t = 9  -> constant_pool_field_ref_entry_from_bytes(b, input_1)
      [] t = 10 -> constant_pool_method_ref_entry_from_bytes(b, input_1)
      [] t = 11 -> constant_pool_instance_method_ref_entry_from_bytes(b, input_1)
      [] t = 12 -> constant_pool_name_and_type_entry_from_bytes(b, input_1)
      [] t = 15 -> constant_pool_method_handle_entry_from_bytes(b, input_1)
      [] t = 16 -> constant_pool_method_type_entry_from_bytes(b, input_1)
      [] t = 17 -> constant_pool_dynamic_entry_from_bytes(b, input_1)
      [] t = 18 -> constant_pool_invoke_dynamic_entry_from_bytes(b, input_1)
      [] t = 19 -> constant_pool_module_entry_from_bytes(b, input_1)
      [] t = 20 -> constant_pool_package_entry_from_bytes(b, input_1)
      [] OTHER  -> Error("Tag", p)

\* a variant of constant_pool_entry_from_bytes that steps over the tags the
\* format leaves unused instead of rejecting them
constant_pool_entry_skips_gaps(b, p, checks) ==
    Then(be_u8(b, p), LAMBDA r :
    IF r.val \in {2, 13, 14} THEN Ok(r.pos, Entry("Unused", <<>>, <<>>, {}))
    ELSE constant_pool_entry_match(r.val, b, p, r.pos, checks))

constant_pool_entry_from_bytes(b, p, checks) ==
    Then(be_u8(b, p), LAMBDA r : constant_pool_entry_match(r.val, b, p, r.pos, checks))

-----------------------------------------------------------------------------
(* Decoded structures other than pool entries are trees                    *)
(*   [kind, data, items]                                                   *)
(* kind: the struct or enum variant; data: its scalar fields in            *)
(* declaration order; items: its nested structures in order                *)

Node(kind, data, items) == [kind |-> kind, data |-> data, items |-> items]

\* a struct of k be_u16 fields
struct_u16(kind, k, b, p) ==
    Then(u16_fields(k, b, p, <<>>), LAMBDA r : Ok(r.pos, Node(kind, r.val, <<>>)))

\* nom::multi::length_count(f, g): f in {"be_u8", "be_u16"} reads the
\* count, g names the element parser; ctx = [pool, checks] is what the
\* element closures capture
RECURSIVE length_count(_, _, _, _, _)

RECURSIVE annotation_from_bytes(_, _, _)
RECURSIVE attribute_from_bytes(_, _, _)

-----------------------------------------------------------------------------
(* Annotations *)

\* a variant of the match in which 'e' reads one index, as 'c' does
element_value_match_enum_one_index(t, b, p, input_1, ctx) ==
    CASE t \in {66, 67, 68, 70, 73, 74, 83, 90, 115} ->
           struct_u16("ConstValue", 1, b, input_1)
      [] t = 101 -> struct_u16("EnumConst", 1, b, input_1)
      [] t = 99  -> struct_u16("ClassInfo", 1, b, input_1)
      [] t = 64  ->
           Then(annotation_from_bytes(b, input_1, ctx), LAMBDA r2 :
           Ok(r2.pos, Node("Annotation", <<>>, <<r2.val>>)))
      [] t = 91  ->
           Then(length_count("be_u16", "element_value", b, input_1, ctx), LAMBDA r2 :
           Ok(r2.pos, Node("Array", <<>>, r2.val)))
      [] OTHER   -> Failure("Tag", p)

\* the match on the tag; p is the offset of the tag, input_1 the offset
\* after it
element_value_match(t, b, p, input_1, ctx) ==
    CASE t \in {66, 67, 68, 70, 73, 74, 83, 90, 115} ->   \* B C D F I J S Z s
           struct_u16("ConstValue", 1, b, input_1)
      [] t = 101 -> struct_u16("EnumConst", 2, b, input_1)   \* e
      [] t = 99  -> struct_u16("ClassInfo", 1, b, input_1)   \* c
      [] t = 64  ->                                          \* @
           Then(annotation_from_bytes(b, input_1, ctx), LAMBDA r2 :
           Ok(r2.pos, Node("Annotation", <<>>, <<r2.val>>)))
      [] t = 91  ->                                          \* [
           Then(length_count("be_u16", "element_value", b, input_1, ctx), LAMBDA r2 :
           Ok(r2.pos, Node("Array", <<>>, r2.val)))
      [] OTHER   -> Failure("Tag", p)

\* a variant of element_value_from_bytes that does not descend into an
\* array: it reads the count and leaves the elements in the input
element_value_array_count_only(b, p, ctx) ==
    Then(be_u8(b, p), LAMBDA r1 :
    IF r1.val = 91
    THEN Then(be_u16(b, r1.pos), LAMBDA r2 : Ok(r2.pos, Node("Array", <<>>, <<>>)))
    ELSE element_value_match(r1.val, b, p, r1.pos, ctx))

element_value_from_bytes(b, p, ctx) ==
    Then(be_u8(b, p), LAMBDA r1 : element_value_match(r1.val, b, p, r1.pos, ctx))

element_value_pair_from_bytes(b, p, ctx) ==
    Then(be_u16(b, p), LAMBDA r1 :
    Then(element_value_from_bytes(b, r1.pos, ctx), LAMBDA r2 :
    Ok(r2.pos, Node("ElementValuePair", <<r1.val>>, <<r2.val>>))))

annotation_from_bytes(b, p, ctx) ==
    Then(be_u16(b, p), LAMBDA r1 :
    Then(length_count("be_u16", "element_value_pair", b, r1.pos, ctx), LAMBDA r2 :
    Ok(r2.pos, Node("AnnotationStruct", <<r1.val>>, r2.val))))

local_var_from_bytes(b, p) == struct_u16("LocalVar", 3, b, p)

\* a struct of two be_u8
struct_u8_u8(kind, b, p) ==
    Then(be_u8(b, p), LAMBDA r1 :
    Then(be_u8(b, r1.pos), LAMBDA r2 :
    Ok(r2.pos, Node(kind, <<r1.val, r2.val>>, <<>>))))

type_path_segment_from_bytes(b, p) == struct_u8_u8("TypePathSegment", b, p)

type_path_from_bytes(b, p, ctx) ==
    Then(length_count("be_u8", "type_path_segment", b, p, ctx), LAMBDA r :
    Ok(r.pos, Node("TypePath", <<>>, r.val)))

\* a TargetInfo of one be_u8
target_u8(kind, b, p) ==
    Then(be_u8(b, p), LAMBDA r : Ok(r.pos, Node(kind, <<r.val>>, <<>>)))

\* a variant of target_info_from_bytes whose Empty arm leaves out 0x15
target_info_without_0x15(b, p, target_type, ctx) ==
    CASE target_type \in {0, 1} -> target_u8("TypeParameter", b, p)
      [] target_type = 16 -> struct_u16("Supertype", 1, b, p)
      [] target_type \in {17, 18} -> struct_u8_u8("TypeParameterBound", b, p)
      [] target_type \in {19, 20} -> Ok(p, Node("Empty", <<>>, <<>>))
      [] target_type = 22 -> target_u8("FormalParameter", b, p)
      [] target_type = 23 -> struct_u16("Throws", 1, b, p)
      [] target_type \in {64, 65} ->
           Then(length_count("be_u16", "local_var", b, p, ctx), LAMBDA r :
           Ok(r.pos, Node("LocalVarTarget", <<>>, r.val)))
      [] target_type = 66 -> struct_u16("Catch", 1, b, p)
      [] target_type \in {67, 68, 69, 70} -> struct_u16("Offset", 1, b, p)
      [] target_type \in {71, 72, 73, 74, 75} ->
           Then(be_u16(b, p), LAMBDA r1 :
           Then(be_u8(b, r1.pos), LAMBDA r2 :
           Ok(r2.pos, Node("TypeArgument", <<r1.val, r2.val>>, <<>>))))
      [] OTHER -> Error("Tag", p)

target_info_from_bytes(b, p, target_type, ctx) ==
    CASE target_type \in {0, 1} -> target_u8("TypeParameter", b, p)
      [] target_type = 16 -> struct_u16("Supertype", 1, b, p)
      [] target_type \in {17, 18} -> struct_u8_u8("TypeParameterBound", b, p)
      [] target_type \in {19, 20, 21} -> Ok(p, Node("Empty", <<>>, <<>>))
      [] target_type = 22 -> target_u8("FormalParameter", b, p)
      [] target_type = 23 -> struct_u16("Throws", 1, b, p)
      [] target_type \in {64, 65} ->
           Then(length_count("be_u16", "local_var", b, p, ctx), LAMBDA r :
           Ok(r.pos, Node("LocalVarTarget", <<>>, r.val)))
      [] target_type = 66 -> struct_u16("Catch", 1, b, p)
      [] target_type \in {67, 68, 69, 70} -> struct_u16("Offset", 1, b, p)
      [] target_type \in {71, 72, 73, 74, 75} ->
           Then(be_u16(b, p), LAMBDA r1 :
           Then(be_u8(b, r1.pos), LAMBDA r2 :
           Ok(r2.pos, Node("TypeArgument", <<r1.val, r2.val>>, <<>>))))
      [] OTHER -> Error("Tag", p)

type_annotation_from_bytes(b, p, ctx) ==
    Then(be_u8(b, p), LAMBDA r1 :
    Then(target_info_from_bytes(b, r1.pos, r1.val, ctx), LAMBDA r2 :
    Then(type_path_from_bytes(b, r2.pos, ctx), LAMBDA r3 :
    Then(be_u16(b, r3.pos), LAMBDA r4 :
    Then(length_count("be_u16", "element_value_pair", b, r4.pos, ctx), LAMBDA r5 :
    Ok(r5.pos, Node("TypeAnnotation", <<r1.val, r4.val>>,
                    <<r2.val, r3.val>> \o r5.val)))))))

-----------------------------------------------------------------------------
(* Fixed-size records of attribute bodies *)

exception_table_entry_from_bytes(b, p) == struct_u16("ExceptionTableEntry", 4, b, p)
inner_class_from_bytes(b, p) == struct_u16("InnerClass", 4, b, p)
line_number_from_bytes(b, p) == struct_u16("LineNumber", 2, b, p)
local_variable_from_bytes(b, p) == struct_u16("LocalVariable", 5, b, p)
local_variable_type_from_bytes(b, p) == struct_u16("LocalVariableType", 5, b, p)
method_parameter_from_bytes(b, p) == struct_u16("MethodParameter", 2, b, p)
module_require_from_bytes(b, p) == struct_u16("ModuleRequires", 3, b, p)

\* k be_u16 fields followed by a counted list of be_u16
struct_u16_list(kind, k, b, p, ctx) ==
    Then(u16_fields(k, b, p, <<>>), LAMBDA r1 :
    Then(length_count("be_u16", "be_u16", b, r1.pos, ctx), LAMBDA r2 :
    Ok(r2.pos, Node(kind, r1.val \o r2.val, <<>>))))

bootstrap_method_from_bytes(b, p, ctx) == struct_u16_list("BootstrapMethod", 1, b, p, ctx)
module_export_from_bytes(b, p, ctx) == struct_u16_list("ModuleExports", 2, b, p, ctx)
module_opens_from_bytes(b, p, ctx) == struct_u16_list("ModuleOpens", 2, b, p, ctx)
module_provides_from_bytes(b, p, ctx) == struct_u16_list("ModuleProvides", 1, b, p, ctx)

exception_table_from_bytes(b, p, ctx) ==
    length_count("be_u16", "exception_table_entry", b, p, ctx)

\* Field, Method: three be_u16, then the attribute list; RecordComponent: two
member_from_bytes(kind, k, b, p, ctx) ==
    Then(u16_fields(k, b, p, <<>>), LAMBDA r1 :
    Then(length_count("be_u16", "attribute", b, r1.pos, ctx), LAMBDA r2 :
    Ok(r2.pos, Node(kind, r1.val, r2.val))))

\* a variant of field_from_bytes that drops the attributes of a field when
\* one of them has an unrecognized name, and takes the rest of the buffer
field_drops_unknown_attributes(b, p, ctx) ==
    Then(u16_fields(3, b, p, <<>>), LAMBDA r1 :
    Then(Ok(r1.pos, length_count("be_u16", "attribute", b, r1.pos, ctx)), LAMBDA r2 :
    IF r2.val.st = "Failure" /\ r2.val.kind = "Tag"
    THEN Ok(Len(b), Node("Field", r1.val, <<>>))
    ELSE Then(r2.val, LAMBDA r3 : Ok(r3.pos, Node("Field", r1.val, r3.val)))))

field_from_bytes(b, p, ctx) == member_from_bytes("Field", 3, b, p, ctx)

\* a variant of method_from_bytes that reads nothing: a method takes no byte
method_reads_nothing(b, p, ctx) == Ok(p, Node("Method", <<>>, <<>>))

method_from_bytes(b, p, ctx) == member_from_bytes("Method", 3, b, p, ctx)
record_component_from_bytes(b, p, ctx) == member_from_bytes("RecordComponent", 2, b, p, ctx)

-----------------------------------------------------------------------------
(* Attribute names and the text conversion *)

AttributeNames == [
    AnnotationDefault |-> <<65, 110, 110, 111, 116, 97, 116, 105, 111, 110, 68, 101, 102, 97, 117, 108, 116>>,
    BootstrapMethods |-> <<66, 111, 111, 116, 115, 116, 114, 97, 112, 77, 101, 116, 104, 111, 100, 115>>,
    Code |-> <<67, 111, 100, 101>>,
    ConstantValue |-> <<67, 111, 110, 115, 116, 97, 110, 116, 86, 97, 108, 117, 101>>,
    Deprecated |-> <<68, 101, 112, 114, 101, 99, 97, 116, 101, 100>>,
    EnclosingMethod |-> <<69, 110, 99, 108, 111, 115, 105, 110, 103, 77, 101, 116, 104, 111, 100>>,
    Exceptions |-> <<69, 120, 99, 101, 112, 116, 105, 111, 110, 115>>,
    InnerClasses |-> <<73, 110, 110, 101, 114, 67, 108, 97, 115, 115, 101, 115>>,
    LineNumberTable |-> <<76, 105, 110, 101, 78, 117, 109, 98, 101, 114, 84, 97, 98, 108, 101>>,
    LocalVariableTable |-> <<76, 111, 99, 97, 108, 86, 97, 114, 105, 97, 98, 108, 101, 84, 97, 98, 108, 101>>,
    LocalVariableTypeTable |-> <<76, 111, 99, 97, 108, 86, 97, 114, 105, 97, 98, 108, 101, 84, 121, 112, 101, 84, 97, 98, 108, 101>>,
    MethodParameters |-> <<77, 101, 116, 104, 111, 100, 80, 97, 114, 97, 109, 101, 116, 101, 114, 115>>,
    Module |-> <<77, 111, 100, 117, 108, 101>>,
    ModuleMainClass |-> <<77, 111, 100, 117, 108, 101, 77, 97, 105, 110, 67, 108, 97, 115, 115>>,
    ModulePackages |-> <<77, 111, 100, 117, 108, 101, 80, 97, 99, 107, 97, 103, 101, 115>>,
    NestHost |-> <<78, 101, 115, 116, 72, 111, 115, 116>>,
    NestMembers |-> <<78, 101, 115, 116, 77, 101, 109, 98, 101, 114, 115>>,
    PermittedSubclasses |-> <<80, 101, 114, 109, 105, 116, 116, 101, 100, 83, 117, 98, 99, 108, 97, 115, 115, 101, 115>>,
    Record |-> <<82, 101, 99, 111, 114, 100>>,
    RuntimeInvisibleAnnotations |-> <<82, 117, 110, 116, 105, 109, 101, 73, 110, 118, 105, 115, 105, 98, 108, 101, 65, 110, 110, 111, 116, 97, 116, 105, 111, 110, 115>>,
    RuntimeInvisibleParameterAnnotations |-> <<82, 117, 110, 116, 105, 109, 101, 73, 110, 118, 105, 115, 105, 98, 108, 101, 80, 97, 114, 97, 109, 101, 116, 101, 114, 65, 110, 110, 111, 116, 97, 116, 105, 111, 110, 115>>,
    RuntimeInvisibleTypeAnnotations |-> <<82, 117, 110, 116, 105, 109, 101, 73, 110, 118, 105, 115, 105, 98, 108, 101, 84, 121, 112, 101, 65, 110, 110, 111, 116, 97, 116, 105, 111, 110, 115>>,
    RuntimeVisibleAnnotations |-> <<82, 117, 110, 116, 105, 109, 101, 86, 105, 115, 105, 98, 108, 101, 65, 110, 110, 111, 116, 97, 116, 105, 111, 110, 115>>,
    RuntimeVisibleParameterAnnotations |-> <<82, 117, 110, 116, 105, 109, 101, 86, 105, 115, 105, 98, 108, 101, 80, 97, 114, 97, 109, 101, 116, 101, 114, 65, 110, 110, 111, 116, 97, 116, 105, 111, 110, 115>>,
    RuntimeVisibleTypeAnnotations |-> <<82, 117, 110, 116, 105, 109, 101, 86, 105, 115, 105, 98, 108, 101, 84, 121, 112, 101, 65, 110, 110, 111, 116, 97, 116, 105, 111, 110, 115>>,
    Signature |-> <<83, 105, 103, 110, 97, 116, 117, 114, 101>>,
    SourceDebugExtension |-> <<83, 111, 117, 114, 99, 101, 68, 101, 98, 117, 103, 69, 120, 116, 101, 110, 115, 105, 111, 110>>,
    SourceFile |-> <<83, 111, 117, 114, 99, 101, 70, 105, 108, 101>>,
    StackMapTable |-> <<83, 116, 97, 99, 107, 77, 97, 112, 84, 97, 98, 108, 101>>,
    Synthetic |-> <<83, 121, 110, 116, 104, 101, 116, 105, 99>>]

\* mutf8::mutf8_to_utf8 on the texts the model feeds it: bytes 1..127 stand
\* for themselves, the pair C0 80 is the NUL character, and a byte that
\* starts no modified-UTF-8 sequence (0x80..0xBF, 0xF8..0xFF) is an error.
\* The result is [ok, text]; text is a sequence of UTF-8 bytes.
RECURSIVE mutf8_to_utf8(_)
mutf8_to_utf8(bs) ==
    IF bs = <<>> THEN [ok |-> TRUE, text |-> <<>>]
    ELSE IF Len(bs) >= 2 /\ bs[1] = 192 /\ bs[2] = 128 THEN
        LET t == mutf8_to_utf8(SubSeq(bs, 3, Len(bs))) IN
        [ok |-> t.ok, text |-> IF t.ok THEN <<0>> \o t.text ELSE <<>>]
    ELSE IF bs[1] >= 128 THEN [ok |-> FALSE, text |-> <<>>]
    ELSE
        LET t == mutf8_to_utf8(Tail(bs)) IN
        [ok |-> t.ok, text |-> IF t.ok THEN <<bs[1]>> \o t.text ELSE <<>>]

\* CowExt::to_str_lossy: String::from_utf8_lossy; a byte that is not valid
\* UTF-8 becomes U+FFFD.  The str is modelled as its sequence of code points.
to_str_lossy(text) ==
    [i \in 1..Len(text) |-> IF text[i] < 128 THEN text[i] ELSE 65533]

\* the pattern ConstantPoolEntry::Utf8 { bytes } of the let-else
is_Utf8(entry) == entry.tag = "Utf8"

-----------------------------------------------------------------------------
(* Attribute bodies *)

\* a body that is one counted list of structures
list_attribute(kind, g, b, p, ctx) ==
    Then(length_count("be_u16", g, b, p, ctx), LAMBDA r :
    Ok(r.pos, Node(kind, <<>>, r.val)))

\* a body that is one counted list of be_u16
index_list_attribute(kind, b, p, ctx) ==
    Then(length_count("be_u16", "be_u16", b, p, ctx), LAMBDA r :
    Ok(r.pos, Node(kind, r.val, <<>>)))

attribute_annotation_default_from_bytes(b, p, ctx) ==
    Then(element_value_from_bytes(b, p, ctx), LAMBDA r :
    Ok(r.pos, Node("AnnotationDefault", <<>>, <<r.val>>)))

attribute_bootstrap_methods_from_bytes(b, p, ctx) ==
    list_attribute("BootstrapMethods", "bootstrap_method", b, p, ctx)

attribute_code_from_bytes(b, p, ctx) ==
    Then(u16_fields(3, b, p, <<>>), LAMBDA r3 :   \* max_stack, max_locals, code_length
    Then(take(<<0, r3.val[3]>>, b, r3.pos), LAMBDA r4 :
    Then(exception_table_from_bytes(b, r4.pos, ctx), LAMBDA r5 :
    Then(length_count("be_u16", "attribute", b, r5.pos, ctx), LAMBDA r6 :
    Ok(r6.pos, Node("Code", <<r3.val[1], r3.val[2]>> \o r4.val,
                    r5.val \o r6.val))))))

attribute_constant_value_from_bytes(b, p) == struct_u16("ConstantValue", 1, b, p)
attribute_enclosing_method_from_bytes(b, p) == struct_u16("EnclosingMethod", 2, b, p)
attribute_exceptions_from_bytes(b, p, ctx) == index_list_attribute("Exceptions", b, p, ctx)
attribute_inner_classes_from_bytes(b, p, ctx) ==
    list_attribute("InnerClasses", "inner_class", b, p, ctx)
attribute_line_number_table_from_bytes(b, p, ctx) ==
    list_attribute("LineNumberTable", "line_number", b, p, ctx)
attribute_local_variable_table_from_bytes(b, p, ctx) ==
    list_attribute("LocalVariableTable", "local_variable", b, p, ctx)
attribute_local_variable_type_table_from_bytes(b, p, ctx) ==
    list_attribute("LocalVariableTypeTable", "local_variable_type", b, p, ctx)
attribute_method_parameters_from_bytes(b, p, ctx) ==
    list_attribute("MethodParameters", "method_parameter", b, p, ctx)

attribute_module_from_bytes(b, p, ctx) ==
    Then(u16_fields(3, b, p, <<>>), LAMBDA r3 :
    Then(length_count("be_u16", "module_require", b, r3.pos, ctx), LAMBDA r4 :
    Then(length_count("be_u16", "module_export", b, r4.pos, ctx), LAMBDA r5 :
    Then(length_count("be_u16", "module_opens", b, r5.pos, ctx), LAMBDA r6 :
    Then(length_count("be_u16", "be_u16", b, r6.pos, ctx), LAMBDA r7 :
    Then(length_count("be_u16", "module_provides", b, r7.pos, ctx), LAMBDA r8 :
    Ok(r8.pos, Node("Module", r3.val \o r7.val,
                    r4.val \o r5.val \o r6.val \o r8.val))))))))

attribute_module_main_class_from_bytes(b, p) == struct_u16("ModuleMainClass", 1, b, p)
attribute_module_packages_from_bytes(b, p, ctx) ==
    index_list_attribute("ModulePackages", b, p, ctx)
attribute_nest_host_from_bytes(b, p) == struct_u16("NestHost", 1, b, p)
attribute_nest_members_from_bytes(b, p, ctx) == index_list_attribute("NestMembers", b, p, ctx)
attribute_permitted_subclasses_from_bytes(b, p, ctx) ==
    index_list_attribute("PermittedSubclasses", b, p, ctx)
attribute_record_from_bytes(b, p, ctx) ==
    list_attribute("Record", "record_component", b, p, ctx)
attribute_runtime_invisible_annotations_from_bytes(b, p, ctx) ==
    list_attribute("RuntimeInvisibleAnnotations", "annotation", b, p, ctx)
attribute_runtime_invisible_parameter_annotations_from_bytes(b, p, ctx) ==
    list_attribute("RuntimeInvisibleParameterAnnotations", "annotation", b, p, ctx)
attribute_runtime_invisible_type_annotations_from_bytes(b, p, ctx) ==
    list_attribute("RuntimeInvisibleTypeAnnotations", "type_annotation", b, p, ctx)
attribute_runtime_visible_annotations_from_bytes(b, p, ctx) ==
    list_attribute("RuntimeVisibleAnnotations", "annotation", b, p, ctx)
attribute_runtime_visible_parameter_annotations_from_bytes(b, p, ctx) ==
    list_attribute("RuntimeVisibleParameterAnnotations", "annotation", b, p, ctx)
attribute_runtime_visible_type_annotations_from_bytes(b, p, ctx) ==
    list_attribute("RuntimeVisibleTypeAnnotations", "type_annotation", b, p, ctx)
attribute_signature_from_bytes(b, p) == struct_u16("Signature", 1, b, p)

attribute_source_debug_extension_from_bytes(b, p, length) ==
    Then(take(length, b, p), LAMBDA r :
    Ok(r.pos, Node("SourceDebugExtension", r.val, <<>>)))

-----------------------------------------------------------------------------
(* One attribute record *)

\* the match on the attribute name: the body decoder selected by the name
attribute_info(name, b, input_2, length, text_off, ctx) ==
    LET N == AttributeNames IN
    CASE name = N.AnnotationDefault -> attribute_annotation_default_from_bytes(b, input_2, ctx)
      [] name = N.BootstrapMethods -> attribute_bootstrap_methods_from_bytes(b, input_2, ctx)
      [] name = N.Code -> attribute_code_from_bytes(b, input_2, ctx)
      [] name = N.ConstantValue -> attribute_constant_value_from_bytes(b, input_2)
      [] name = N.Deprecated -> Ok(input_2, Node("Deprecated", <<>>, <<>>))
      [] name = N.EnclosingMethod -> attribute_enclosing_method_from_bytes(b, input_2)
      [] name = N.Exceptions -> attribute_exceptions_from_bytes(b, input_2, ctx)
      [] name = N.InnerClasses -> attribute_inner_classes_from_bytes(b, input_2, ctx)
      [] name = N.LineNumberTable -> attribute_line_number_table_from_bytes(b, input_2, ctx)
      [] name = N.LocalVariableTable ->
           attribute_local_variable_table_from_bytes(b, input_2, ctx)
      [] name = N.LocalVariableTypeTable ->
           attribute_local_variable_type_table_from_bytes(b, input_2, ctx)
      [] name = N.MethodParameters -> attribute_method_parameters_from_bytes(b, input_2, ctx)
      [] name = N.Module -> attribute_module_from_bytes(b, input_2, ctx)
      [] name = N.ModuleMainClass -> attribute_module_main_class_from_bytes(b, input_2)
      [] name = N.ModulePackages -> attribute_module_packages_from_bytes(b, input_2, ctx)
      [] name = N.NestHost -> attribute_nest_host_from_bytes(b, input_2)
      [] name = N.NestMembers -> attribute_nest_members_from_bytes(b, input_2, ctx)
      [] name = N.PermittedSubclasses ->
           attribute_permitted_subclasses_from_bytes(b, input_2, ctx)
      [] name = N.Record -> attribute_record_from_bytes(b, input_2, ctx)
      [] name = N.RuntimeInvisibleAnnotations ->
           attribute_runtime_invisible_annotations_from_bytes(b, input_2, ctx)
      [] name = N.RuntimeInvisibleParameterAnnotations ->
           attribute_runtime_invisible_parameter_annotations_from_bytes(b, input_2, ctx)
      [] name = N.RuntimeInvisibleTypeAnnotations ->
           attribute_runtime_invisible_type_annotations_from_bytes(b, input_2, ctx)
      [] name = N.RuntimeVisibleAnnotations ->
           attribute_runtime_visible_annotations_from_bytes(b, input_2, ctx)
      [] name = N.RuntimeVisibleParameterAnnotations ->
           attribute_runtime_visible_parameter_annotations_from_bytes(b, input_2, ctx)
      [] name = N.RuntimeVisibleTypeAnnotations ->
           attribute_runtime_visible_type_annotations_from_bytes(b, input_2, ctx)
      [] name = N.Signature -> attribute_signature_from_bytes(b, input_2)
      [] name = N.SourceDebugExtension ->
           attribute_source_debug_extension_from_bytes(b, input_2, length)
      [] name = N.SourceFile -> Panic("todo", input_2)
      [] name = N.StackMapTable -> Panic("todo", input_2)
      [] name = N.Synthetic -> Panic("todo", input_2)
      [] OTHER -> Failure("Tag", text_off)

\* constant_pool[attribute_name_index as usize - 1]: index 0 underflows the
\* subtraction (a panic with overflow checks on, usize::MAX and then an
\* out-of-bounds panic with them off); an index past the end is an
\* out-of-bounds panic
pool_index(pool, attribute_name_index, checks) ==
    IF attribute_name_index = 0 /\ checks THEN [ok |-> FALSE, why |-> "sub_overflow"]
    ELSE IF attribute_name_index = 0 \/ attribute_name_index > Len(pool)
         THEN [ok |-> FALSE, why |-> "index_out_of_bounds"]
    ELSE [ok |-> TRUE, why |-> "None"]

\* the rest of attribute_from_bytes once the name entry is in hand: read
\* the length, convert the name, decode the body
attribute_named(entry, utf8, b, input_1, ctx) ==
    Then(be_u32(b, input_1), LAMBDA r2 :
    IF ~utf8.ok THEN Failure("Verify", entry.off) ELSE
    Then(attribute_info(to_str_lossy(utf8.text), b, r2.pos, r2.val, entry.off, ctx),
         LAMBDA r3 : Ok(r3.pos, Node("Attribute", <<>>, <<r3.val>>))))

\* a variant of attribute_entry that reads the length field before it looks
\* at the pool entry: a short buffer then fails with Eof at the length
attribute_entry_length_first(at, attribute_name_index, b, p, input_1, ctx) ==
    IF ~at.ok THEN Panic(at.why, p) ELSE
    Then(be_u32(b, input_1), LAMBDA r2 :
    IF ~is_Utf8(ctx.pool[attribute_name_index]) THEN Failure("IsNot", p)
    ELSE attribute_named(ctx.pool[attribute_name_index],
                         mutf8_to_utf8(ctx.pool[attribute_name_index].bytes),
                         b, input_1, ctx))

\* the let-else on the pool entry the name index selects
attribute_entry(at, attribute_name_index, b, p, input_1, ctx) ==
    IF ~at.ok THEN Panic(at.why, p)
    ELSE IF ~is_Utf8(ctx.pool[attribute_name_index]) THEN Failure("IsNot", p)
    ELSE attribute_named(ctx.pool[attribute_name_index],
                         mutf8_to_utf8(ctx.pool[attribute_name_index].bytes),
                         b, input_1, ctx)

\* the place in the pool of the entry numbered idx when a Long or Double
\* entry takes two numbers, as in the class-file format: i is a place, j its
\* number; a number that falls on no entry is past the end
RECURSIVE numbered_entry(_, _, _, _)
numbered_entry(pool, idx, i, j) ==
    IF i > Len(pool) \/ j > idx THEN Len(pool) + 1
    ELSE IF j = idx THEN i
    ELSE numbered_entry(pool, idx, i + 1,
                        IF pool[i].tag \in {"Long", "Double"} THEN j + 2 ELSE j + 1)

\* a variant of attribute_from_bytes that resolves the name index by that
\* numbering
attribute_from_bytes_wide_takes_two(b, p, ctx) ==
    Then(be_u16(b, p), LAMBDA r1 :
    attribute_entry(pool_index(ctx.pool, numbered_entry(ctx.pool, r1.val, 1, 1), ctx.checks),
                    numbered_entry(ctx.pool, r1.val, 1, 1), b, p, r1.pos, ctx))

attribute_from_bytes(b, p, ctx) ==
    Then(be_u16(b, p), LAMBDA r1 :
    attribute_entry(pool_index(ctx.pool, r1.val, ctx.checks), r1.val, b, p, r1.pos, ctx))

-----------------------------------------------------------------------------
(* length_count *)

\* the element parser g applied at offset p
parse(g, b, p, ctx) ==
    CASE g = "be_u8" -> be_u8(b, p)
      [] g = "be_u16" -> be_u16(b, p)
      [] g = "constant_pool_entry" -> constant_pool_entry_from_bytes(b, p, ctx.checks)
      [] g = "field" -> field_from_bytes(b, p, ctx)
      [] g = "method" -> method_from_bytes(b, p, ctx)
      [] g = "attribute" -> attribute_from_bytes(b, p, ctx)
      [] g = "annotation" -> annotation_from_bytes(b, p, ctx)
      [] g = "element_value" -> element_value_from_bytes(b, p, ctx)
      [] g = "element_value_pair" -> element_value_pair_from_bytes(b, p, ctx)
      [] g = "type_annotation" -> type_annotation_from_bytes(b, p, ctx)
      [] g = "type_path_segment" -> type_path_segment_from_bytes(b, p)
      [] g = "local_var" -> local_var_from_bytes(b, p)
      [] g = "exception_table_entry" -> exception_table_entry_from_bytes(b, p)
      [] g = "inner_class" -> inner_class_from_bytes(b, p)
      [] g = "line_number" -> line_number_from_bytes(b, p)
      [] g = "local_variable" -> local_variable_from_bytes(b, p)
      [] g = "local_variable_type" -> local_variable_type_from_bytes(b, p)
      [] g = "method_parameter" -> method_parameter_from_bytes(b, p)
      [] g = "module_require" -> module_require_from_bytes(b, p)
      [] g = "module_export" -> module_export_from_bytes(b, p, ctx)
      [] g = "module_opens" -> module_opens_from_bytes(b, p, ctx)
      [] g = "module_provides" -> module_provides_from_bytes(b, p, ctx)
      [] g = "bootstrap_method" -> bootstrap_method_from_bytes(b, p, ctx)
      [] g = "record_component" -> record_component_from_bytes(b, p, ctx)

\* the loop of length_count: n more elements from offset p.  An Err::Error
\* of the element is returned as Err::Error with the element's own error
\* (Error::append keeps the inner error); Failure and panics pass through.
\* a variant of the element loop that, like nom's many0, ends the list at an
\* element's Err::Error and goes on with what it has
RECURSIVE count_loop_ends_at_error(_, _, _, _, _, _)
count_loop_ends_at_error(g, b, p, n, res, ctx) ==
    IF n = 0 \/ parse(g, b, p, ctx).st = "Error" THEN Ok(p, res)
    ELSE Then(parse(g, b, p, ctx),
              LAMBDA r : count_loop_ends_at_error(g, b, r.pos, n - 1,
                                                  Append(res, r.val), ctx))

RECURSIVE count_loop(_, _, _, _, _, _)
count_loop(g, b, p, n, res, ctx) ==
    IF n = 0 THEN Ok(p, res)
    ELSE Then(parse(g, b, p, ctx),
              LAMBDA r : count_loop(g, b, r.pos, n - 1, Append(res, r.val), ctx))

length_count(f, g, b, p, ctx) ==
    Then(parse(f, b, p, ctx), LAMBDA c : count_loop(g, b, c.pos, c.val, <<>>, ctx))

-----------------------------------------------------------------------------
(* ClassParser (lib.rs): a cursor over a slice. u1, u2 and u4 take         *)
(* &'class mut self, so safe code outside the module gets one call per     *)
(* parser; inside the crate a parser is built at any position, which is    *)
(* what a sequence of the calls below reaches                              *)

ClassParser_new(b) == [bytes |-> b, position |-> 0]

NoRead == [op |-> "none", width |-> 0, at |-> 0, ok |-> FALSE, val |-> <<>>]

\* a variant of the guard that is evaluated after the position moved: a
\* failed call has advanced the parser
ensure_after_advance(cond, op, width) ==
    ~cond /\ read' = [op |-> op, width |-> width, at |-> parser.position,
                      ok |-> FALSE, val |-> <<>>]
          /\ parser' = [parser EXCEPT !.position = @ + 1]

\* ensure!(cond, ..): the call returns Err when cond is false and leaves
\* self as it is
ensure(cond, op, width) ==
    ~cond /\ read' = [op |-> op, width |-> width, at |-> parser.position,
                      ok |-> FALSE, val |-> <<>>]
          /\ parser' = parser

\* the rest of a call: the bytes converted, then position += 1
result(op, width) ==
    /\ read' = [op |-> op, width |-> width, at |-> parser.position, ok |-> TRUE,
                val |-> SubSeq(parser.bytes, parser.position + 1,
                               parser.position + width)]
    /\ parser' = [parser EXCEPT !.position = @ + 1]

u1 ==
    /\ \/ ensure(parser.position + 1 < Len(parser.bytes), "u1", 1)
       \/ parser.position + 1 < Len(parser.bytes) /\ result("u1", 1)
    /\ UNCHANGED <<bytes, overflow_checks, pc, inputs, decoded, err, harness>>

u2 ==
    /\ \/ ensure(parser.position + 2 < Len(parser.bytes), "u2", 2)
       \/ parser.position + 2 < Len(parser.bytes) /\ result("u2", 2)
    /\ UNCHANGED <<bytes, overflow_checks, pc, inputs, decoded, err, harness>>

u4 ==
    /\ \/ ensure(parser.position + 4 < Len(parser.bytes), "u4", 4)
       \/ parser.position + 4 < Len(parser.bytes) /\ result("u4", 4)
    /\ UNCHANGED <<bytes, overflow_checks, pc, inputs, decoded, err, harness>>

-----------------------------------------------------------------------------
(* classfile_from_bytes, one action per statement *)

MAGIC == <<202, 254, 186, 190>>     \* CA FE BA BE

NoError == [st |-> "None", kind |-> "None", pos |-> 0]

\* a variant of what the closures capture: a pool that holds no entry yet
Ctx_before_the_pool == [pool |-> <<>>, checks |-> overflow_checks]

Ctx == [pool |-> constant_pool, checks |-> overflow_checks]

\* the offset of the input the next statement parses
CurrentInput == IF inputs = <<>> THEN 0 ELSE inputs[Len(inputs)]

classfile_version_from_bytes(b, p) == struct_u16("Version", 2, b, p)

\* `?` on an Err returns it from classfile_from_bytes; a panic unwinds
Return(r) ==
    /\ pc' = IF r.st = "Panic" THEN "panic" ELSE "error"
    /\ err' = [st |-> r.st, kind |-> r.kind, pos |-> r.pos]
    /\ UNCHANGED <<inputs, decoded>>

\* `let (input_k, x) = parser(..)?;`: an Ok binds input_k and the local
\* named by `local` ("_" binds none) and goes on to statement `next`; an Err
\* is returned
Let(r, local, next) ==
    IF r.st = "Ok"
    THEN /\ pc' = next
         /\ inputs' = Append(inputs, r.pos)
         /\ err' = err
         /\ version' = IF local = "version" THEN r.val ELSE version
         /\ constant_pool' = IF local = "constant_pool" THEN r.val ELSE constant_pool
         /\ access_flags' = IF local = "access_flags" THEN r.val ELSE access_flags
         /\ this_class' = IF local = "this_class" THEN r.val ELSE this_class
         /\ super_class' = IF local = "super_class" THEN r.val ELSE super_class
         /\ interfaces' = IF local = "interfaces" THEN r.val ELSE interfaces
         /\ fields' = IF local = "fields" THEN r.val ELSE fields
         /\ methods' = IF local = "methods" THEN r.val ELSE methods
         /\ attributes' = IF local = "attributes" THEN r.val ELSE attributes
    ELSE Return(r)

Magic ==
    /\ pc = "magic"
    /\ Let(tag(MAGIC, bytes, CurrentInput),
           "_", "version")
    /\ UNCHANGED <<bytes, overflow_checks, harness, reader>>

ParseVersion ==
    /\ pc = "version"
    /\ Let(classfile_version_from_bytes(bytes, CurrentInput),
           "version", "constant_pool")
    /\ UNCHANGED <<bytes, overflow_checks, harness, reader>>

ParseConstantPool ==
    /\ pc = "constant_pool"
    /\ Let(length_count("be_u16", "constant_pool_entry", bytes, CurrentInput, Ctx),
           "constant_pool", "access_flags")
    /\ UNCHANGED <<bytes, overflow_checks, harness, reader>>

ParseAccessFlags ==
    /\ pc = "access_flags"
    /\ Let(be_u16(bytes, CurrentInput),
           "access_flags", "this_class")
    /\ UNCHANGED <<bytes, overflow_checks, harness, reader>>

ParseThisClass ==
    /\ pc = "this_class"
    /\ Let(be_u16(bytes, CurrentInput),
           "this_class", "super_class")
    /\ UNCHANGED <<bytes, overflow_checks, harness, reader>>

ParseSuperClass ==
    /\ pc = "super_class"
    /\ Let(be_u16(bytes, CurrentInput),
           "super_class", "interfaces")
    /\ UNCHANGED <<bytes, overflow_checks, harness, reader>>

ParseInterfaces ==
    /\ pc = "interfaces"
    /\ Let(length_count("be_u16", "be_u16", bytes, CurrentInput, Ctx),
           "interfaces", "fields")
    /\ UNCHANGED <<bytes, overflow_checks, harness, reader>>

ParseFields ==
    /\ pc = "fields"
    /\ Let(length_count("be_u16", "field", bytes, CurrentInput, Ctx),
           "fields", "methods")
    /\ UNCHANGED <<bytes, overflow_checks, harness, reader>>

ParseMethods ==
    /\ pc = "methods"
    /\ Let(length_count("be_u16", "method", bytes, CurrentInput, Ctx),
           "methods", "attributes")
    /\ UNCHANGED <<bytes, overflow_checks, harness, reader>>

\* nom::combinator::all_consuming: an Ok that leaves input is an error
all_consuming(r) ==
    IF r.st = "Ok" /\ r.pos # Len(bytes) THEN Error("Eof", r.pos) ELSE r

\* a variant of the last statement that requires the attributes to end the
\* buffer
ParseAttributes_all_consuming ==
    /\ pc = "attributes"
    /\ Let(all_consuming(length_count("be_u16", "attribute", bytes, CurrentInput, Ctx)),
           "attributes", "done")
    /\ UNCHANGED <<bytes, overflow_checks, harness, reader>>

\* the last statement: an Ok returns (input_10, Classfile { .. })
ParseAttributes ==
    /\ pc = "attributes"
    /\ Let(length_count("be_u16", "attribute", bytes, CurrentInput, Ctx),
           "attributes", "done")
    /\ UNCHANGED <<bytes, overflow_checks, harness, reader>>

-----------------------------------------------------------------------------
(* The buffers the harness feeds the decoder *)

MaxNest == 3        \* deepest nesting of arrays, annotations and Code built
MaxTrail == 2       \* most bytes left after the class-level attributes

U16(n) == <<n \div 256, n % 256>>
U32(n) == <<0, 0>> \o U16(n)

RECURSIVE Zeros(_)
Zeros(n) == IF n = 0 THEN <<>> ELSE <<0>> \o Zeros(n - 1)

Header == MAGIC \o U16(0) \o U16(52)

\* a class file: the pool count field, the pool entries, the three lists
ClassBytes(count, entries, flds, mths, attrs) ==
    Header \o U16(count) \o entries
           \o U16(0) \o U16(0) \o U16(0)          \* access_flags, this, super
           \o U16(0)                              \* interfaces
           \o flds \o mths \o attrs

None0 == U16(0)                                   \* an empty counted list

Utf8Bytes(text) == <<1>> \o U16(Len(text)) \o text
IntegerBytes == <<3, 0, 0, 0, 7>>

AttrBytes(index, length, body) == U16(index) \o U32(length) \o body

\* the magic, version 0.52, pool count 1, everything else zero
MinimalBuffer == ClassBytes(1, <<>>, None0, None0, None0)

\* 32-bit halves of Long and Double entries, as four bytes
Word32Samples ==
    { <<0, 0, 0, 0>>, <<0, 0, 0, 1>>, <<0, 0, 0, 31>>, <<0, 0, 0, 32>>,
      <<0, 0, 0, 33>>, <<0, 1, 0, 0>>, <<128, 0, 0, 0>>, <<255, 255, 255, 255>> }

\* one pool entry per tag byte; tags outside the live ones get two bytes
EntrySamples ==
    { <<t>> \o Zeros(2) : t \in {0, 2, 7, 8, 13, 14, 16, 19, 20, 21, 255} }
    \cup { <<t>> \o Zeros(4) : t \in {3, 4, 9, 10, 11, 12, 17, 18} }
    \cup { <<15, 1, 0, 1>>, Utf8Bytes(<<72, 105>>), <<1, 0, 5, 97, 98, 99>> }
    \cup { <<t>> \o h \o l : t \in {5, 6}, h \in Word32Samples, l \in Word32Samples }

\* one entry; the count field holds the number of entries or one more
PoolInputs ==
    { ClassBytes(c, e, None0, None0, None0) : c \in {1, 2}, e \in EntrySamples }
    \cup { ClassBytes(c, <<>>, None0, None0, None0) : c \in {0, 1} }

\* a buffer that ends 0 to 4 bytes into the text of its first pool entry, a
\* Utf8 entry declaring 1 or 5 bytes; the count field holds 1 or 2
ShortUtf8Inputs ==
    { Header \o U16(c) \o <<1>> \o U16(n) \o SubSeq(<<97, 98, 99, 100>>, 1, k) :
        c \in {1, 2}, n \in {1, 5}, k \in 0..4 }

\* a Class entry, then an entry whose tag is none of the live ones; the
\* count field holds 2 or 3
GapInputs ==
    { ClassBytes(c, <<7, 0, 1>> \o <<t>> \o Zeros(2), None0, None0, None0) :
        c \in {2, 3}, t \in {0, 2, 13, 14, 21, 255} }


\* k be_u16 fields of value 1
RECURSIVE Ones(_)
Ones(k) == IF k = 0 THEN <<>> ELSE U16(1) \o Ones(k - 1)

\* element values, annotations and Code bodies nested d deep
RECURSIVE ArrayNest(_)
ArrayNest(d) ==
    IF d = 0 THEN <<115>> \o U16(1) ELSE <<91>> \o U16(1) \o ArrayNest(d - 1)

RECURSIVE AnnotationNest(_)
AnnotationNest(d) ==
    IF d = 0 THEN <<99>> \o U16(1)
    ELSE <<64>> \o U16(1) \o U16(1) \o U16(1) \o AnnotationNest(d - 1)

RECURSIVE CodeNest(_)
CodeNest(d) ==
    U16(1) \o U16(1) \o U16(2) \o <<42, 177>> \o U16(1) \o Ones(4) \o
    (IF d = 0 THEN None0
     ELSE U16(1) \o AttrBytes(1, Len(CodeNest(d - 1)), CodeNest(d - 1)))

OneAnnotation == U16(1) \o U16(1) \o U16(1) \o U16(1) \o <<101>> \o Ones(2)

\* target_type, target_info, a one-segment type path, type index, no pairs
TypeAnnotationBytes(target_type, target_info) ==
    <<target_type>> \o target_info \o <<1, 0, 0>> \o U16(1) \o None0

\* bodies per attribute name; the name selects the decoder they exercise
Bodies == [
    AnnotationDefault |-> { ArrayNest(1), <<101>> \o Ones(2), <<63>> \o Ones(1),
                            <<91>> \o U16(2) \o <<91>> \o None0 \o <<91>> \o None0 },
    BootstrapMethods |-> { U16(1) \o Ones(1) \o U16(1) \o Ones(1) },
    Code |-> { CodeNest(0) },
    ConstantValue |-> { Ones(1) },
    Deprecated |-> { <<>>, <<0, 0>> },
    EnclosingMethod |-> { Ones(2) },
    Exceptions |-> { U16(1) \o Ones(1), None0 },
    InnerClasses |-> { U16(1) \o Ones(4) },
    LineNumberTable |-> { U16(1) \o Ones(2) },
    LocalVariableTable |-> { U16(1) \o Ones(5) },
    LocalVariableTypeTable |-> { U16(1) \o Ones(5) },
    MethodParameters |-> { U16(1) \o Ones(2) },
    Module |-> { Ones(3) \o U16(1) \o Ones(3)
                         \o U16(1) \o Ones(2) \o U16(1) \o Ones(1)
                         \o U16(1) \o Ones(2) \o U16(1) \o Ones(1)
                         \o U16(1) \o Ones(1)
                         \o U16(1) \o Ones(1) \o U16(1) \o Ones(1) },
    ModuleMainClass |-> { Ones(1) },
    ModulePackages |-> { U16(1) \o Ones(1) },
    NestHost |-> { Ones(1) },
    NestMembers |-> { U16(1) \o Ones(1) },
    PermittedSubclasses |-> { U16(1) \o Ones(1) },
    Record |-> { U16(1) \o Ones(2) \o U16(1) \o AttrBytes(1, 2, None0), None0 },
    RuntimeInvisibleAnnotations |-> { OneAnnotation },
    RuntimeInvisibleParameterAnnotations |-> { OneAnnotation },
    RuntimeInvisibleTypeAnnotations |->
        { U16(1) \o TypeAnnotationBytes(71, Ones(1) \o <<0>>),
          U16(1) \o TypeAnnotationBytes(2, <<>>) },
    RuntimeVisibleAnnotations |-> { OneAnnotation },
    RuntimeVisibleParameterAnnotations |-> { OneAnnotation },
    RuntimeVisibleTypeAnnotations |->
        { U16(1) \o TypeAnnotationBytes(19, <<>>),
          U16(1) \o TypeAnnotationBytes(64, U16(1) \o Ones(3)) },
    Signature |-> { Ones(1) },
    SourceDebugExtension |-> { <<7, 8, 9>> },
    SourceFile |-> { Ones(1) },
    StackMapTable |-> { U16(1) \o <<255>> \o U16(0) \o U16(0) \o U16(0),
                        U16(1) \o <<128>>, U16(1) \o <<63>> },
    Synthetic |-> { <<>> } ]

\* texts that are no attribute name: "Foo", "Cod", NUL as C0 80, a stray FF
OtherNames == { <<70, 111, 111>>, <<67, 111, 100>>, <<192, 128>>, <<67, 255>> }

\* the pool of the attribute inputs: entry 1 the name, entry 2 an Integer
NamePool(text) == Utf8Bytes(text) \o IntegerBytes

AttributeFile(text, attrs) == ClassBytes(2, NamePool(text), None0, None0, attrs)

\* the lengths an attribute over these body bytes declares: their number,
\* and one less
DeclaredLengths(body) ==
    {Len(body)} \cup (IF body = <<>> THEN {} ELSE {Len(body) - 1})

\* one class-level attribute per name, body and declared length
KnownAttributeInputs ==
    UNION { UNION { { AttributeFile(AttributeNames[n], U16(1) \o AttrBytes(1, len, body)) :
                        len \in DeclaredLengths(body) } :
                    body \in Bodies[n] } :
            n \in DOMAIN AttributeNames }

OtherAttributeInputs ==
    { AttributeFile(text, U16(1) \o AttrBytes(1, 0, <<>>)) : text \in OtherNames }

\* an attribute record rec at each site that decodes attributes: the class,
\* a field, a method, the attribute list of Code, a record component
SiteFile(site, text, rec) ==
    LET pool == NamePool(text)
        member == U16(1) \o Ones(3) \o U16(1) \o rec
        code == U16(1) \o U16(1) \o U16(0) \o None0 \o U16(1) \o rec
        component == U16(1) \o Ones(2) \o U16(1) \o rec
    IN  CASE site = "class" -> ClassBytes(2, pool, None0, None0, U16(1) \o rec)
          [] site = "field" -> ClassBytes(2, pool, member, None0, None0)
          [] site = "method" -> ClassBytes(2, pool, None0, member, None0)
          [] site = "code" ->
               ClassBytes(2, pool, None0, None0, U16(1) \o AttrBytes(1, Len(code), code))
          [] site = "component" ->
               ClassBytes(2, pool, None0, None0,
                          U16(1) \o AttrBytes(1, Len(component), component))

Sites == {"class", "field", "method", "code", "component"}

\* an attribute with a complete header whose name is the text, at a site;
\* the pool holds the text (1), an Integer (2), "Code" (3) and "Record" (4)
\* to name the attribute around it
UnknownSiteFile(site, text) ==
    LET pool == NamePool(text) \o Utf8Bytes(AttributeNames.Code)
                               \o Utf8Bytes(AttributeNames.Record)
        rec == AttrBytes(1, 0, <<>>)
        member == U16(1) \o Ones(3) \o U16(1) \o rec
        code == U16(1) \o U16(1) \o U16(0) \o None0 \o U16(1) \o rec
        component == U16(1) \o Ones(2) \o U16(1) \o rec
    IN  CASE site = "class" -> ClassBytes(4, pool, None0, None0, U16(1) \o rec)
          [] site = "field" -> ClassBytes(4, pool, member, None0, None0)
          [] site = "method" -> ClassBytes(4, pool, None0, member, None0)
          [] site = "code" ->
               ClassBytes(4, pool, None0, None0, U16(1) \o AttrBytes(3, Len(code), code))
          [] site = "component" ->
               ClassBytes(4, pool, None0, None0,
                          U16(1) \o AttrBytes(4, Len(component), component))

\* "Foo", "Cod", NUL as C0 80: texts that convert and are no attribute name
UnknownTexts == { <<70, 111, 111>>, <<67, 111, 100>>, <<192, 128>> }

UnknownSiteInputs ==
    { UnknownSiteFile(site, text) : site \in Sites, text \in UnknownTexts }

SiteText(site) ==
    CASE site = "code" -> AttributeNames.Code
      [] site = "component" -> AttributeNames.Record
      [] OTHER -> AttributeNames.Deprecated

\* attribute records whose name index is 0, the name (1), the Integer (2) or
\* past the end (3), followed by nothing, by two bytes or by a length field
IndexInputs ==
    { SiteFile(site, SiteText(site), U16(index) \o rest) :
        site \in Sites, index \in 0..3, rest \in {<<>>, U16(0), U32(0)} }

\* pools with a Long or Double entry before a name: the text "Deprecated",
\* the wide entry, the text "Signature"; and the wide entry, then the text
\* "Deprecated".  One class-level attribute names each entry in turn.
WideInputs ==
    LET wide(t) == <<t, 0, 0, 0, 1, 0, 0, 0, 0>>
    IN  { ClassBytes(3, Utf8Bytes(AttributeNames.Deprecated) \o wide(t)
                          \o Utf8Bytes(AttributeNames.Signature),
                     None0, None0, U16(1) \o AttrBytes(k, 2, Ones(1))) :
            t \in {5, 6}, k \in 1..3 }
        \cup { ClassBytes(2, wide(t) \o Utf8Bytes(AttributeNames.Deprecated),
                          None0, None0, U16(1) \o AttrBytes(k, 0, <<>>)) :
                 t \in {5, 6}, k \in 1..2 }

NestInputs ==
    UNION { { AttributeFile(AttributeNames.AnnotationDefault,
                            U16(1) \o AttrBytes(1, Len(ArrayNest(d)), ArrayNest(d))),
              AttributeFile(AttributeNames.AnnotationDefault,
                            U16(1) \o AttrBytes(1, Len(AnnotationNest(d)), AnnotationNest(d))),
              AttributeFile(AttributeNames.Code,
                            U16(1) \o AttrBytes(1, Len(CodeNest(d)), CodeNest(d))) } :
            d \in 1..MaxNest }

RECURSIVE Trail(_)
Trail(n) == IF n = 0 THEN <<>> ELSE <<9>> \o Trail(n - 1)

TrailInputs ==
    { base \o Trail(n) :
        base \in { ClassBytes(0, <<>>, None0, None0, None0),
                   AttributeFile(AttributeNames.Signature, U16(1) \o AttrBytes(1, 2, Ones(1))) },
        n \in 1..MaxTrail }

\* a buffer with one fault: `before` decodes, the decoder that reads `fault`
\* fails, `rest` would decode (or fail otherwise) if decoding went on
Fault(before, fault, rest, st, kind, pos) ==
    [bytes |-> before \o fault \o rest, st |-> st, kind |-> kind, pos |-> pos]

\* the start of a class file up to the fields, the pool naming `text`
UpToFields(text) == ClassBytes(2, NamePool(text), <<>>, <<>>, <<>>)

\* ... up to the body of its one class-level attribute of declared length len
UpToBody(text, len) == UpToFields(text) \o None0 \o None0 \o U16(1) \o U16(1) \o U32(len)

\* one fault per nested decoder, each followed by more input
Faults ==
    LET foo == <<70, 111, 111>>
        entry == Header \o U16(2)
        field == UpToFields(foo) \o U16(2) \o Ones(3) \o U16(1)
        method == UpToFields(AttributeNames.Code) \o None0 \o U16(2) \o Ones(3)
                    \o U16(1) \o U16(1) \o U32(12) \o Ones(2) \o U16(9)
        attribute == UpToFields(foo) \o None0 \o None0 \o U16(2)
        annotation == UpToBody(AttributeNames.RuntimeVisibleAnnotations, 5)
                        \o U16(1) \o U16(1)
        value == UpToBody(AttributeNames.AnnotationDefault, 9) \o <<91>> \o U16(2)
        target == UpToBody(AttributeNames.RuntimeVisibleTypeAnnotations, 18)
                    \o U16(2) \o <<2>>
    IN  { \* constant-pool entry: the unused tag 2, then tag 21
          Fault(entry, <<2, 0, 0>>, <<21, 0, 0>> \o Zeros(14),
                "Error", "Tag", Len(entry)),
          \* field: its attribute is named by the Integer entry; a second field
          Fault(field, AttrBytes(2, 0, <<>>),
                Ones(3) \o None0 \o None0 \o None0,
                "Failure", "IsNot", Len(field)),
          \* method: its Code declares 9 bytes of code and 4 follow
          Fault(method, <<>>, <<42, 177, 0, 0>>,
                "Error", "Eof", Len(method)),
          \* attribute: named by the Integer entry; then one named "Foo"
          Fault(attribute, AttrBytes(2, 0, <<>>), AttrBytes(1, 0, <<>>),
                "Failure", "IsNot", Len(attribute)),
          \* annotation: the buffer ends inside its pair count
          Fault(annotation, <<0>>, <<>>,
                "Error", "Eof", Len(annotation)),
          \* element value: the tag '?', then a valid value in the same array
          Fault(value, <<63>> \o Ones(1), <<115>> \o Ones(1),
                "Failure", "Tag", Len(value)),
          \* target info: target_type 2, then a valid type annotation
          Fault(target, <<>>, <<0, 0, 1>> \o None0 \o TypeAnnotationBytes(19, <<>>),
                "Error", "Tag", Len(target)) }

FaultInputs == { f.bytes : f \in Faults }

Inputs ==
    PoolInputs \cup ShortUtf8Inputs \cup FaultInputs \cup GapInputs \cup UnknownSiteInputs \cup KnownAttributeInputs \cup OtherAttributeInputs
               \cup IndexInputs \cup WideInputs \cup NestInputs \cup TrailInputs

\* bytes added after a buffer: a zero, FF, a count of one, an attribute
\* header naming entry 1, the magic
AddedBytes == { <<0>>, <<255>>, U16(1), AttrBytes(1, 0, <<>>), MAGIC }

\* four bytes that are not the magic
BadMagics == { <<202, 254, 186, 191>>, <<202, 254, 0, 0>>, <<0, 254, 186, 190>>,
               <<190, 186, 254, 202>> }

-----------------------------------------------------------------------------
(* The harness: decode a buffer, then decode it again cut short, with its  *)
(* first four bytes changed, or with bytes added at its end                *)

Fresh(b) ==
    /\ bytes' = b
    /\ pc' = "magic"
    /\ inputs' = <<>>
    /\ version' = <<>>
    /\ constant_pool' = <<>>
    /\ access_flags' = 0
    /\ this_class' = 0
    /\ super_class' = 0
    /\ interfaces' = <<>>
    /\ fields' = <<>>
    /\ methods' = <<>>
    /\ attributes' = <<>>
    /\ err' = NoError

Init ==
    /\ bytes \in Inputs
    /\ overflow_checks \in BOOLEAN
    /\ pc = "magic"
    /\ inputs = <<>>
    /\ version = <<>>
    /\ constant_pool = <<>>
    /\ access_flags = 0
    /\ this_class = 0
    /\ super_class = 0
    /\ interfaces = <<>>
    /\ fields = <<>>
    /\ methods = <<>>
    /\ attributes = <<>>
    /\ err = NoError
    /\ origin = "fresh"
    /\ base_len = 0
    /\ base_consumed = 0
    /\ base_classfile = <<>>
    /\ parser = ClassParser_new(<<>>)
    /\ read = NoRead

\* a buffer that decoded successfully, cut at a byte boundary before its end
Truncate ==
    /\ pc = "done"
    /\ origin = "fresh"
    /\ \E k \in 0..(Len(bytes) - 1) : Fresh(SubSeq(bytes, 1, k))
    /\ origin' = "truncated"
    /\ base_len' = Len(bytes)
    /\ base_consumed' = CurrentInput
    /\ base_classfile' = decoded
    /\ UNCHANGED <<overflow_checks, reader>>

\* a buffer that decoded successfully, with its first four bytes replaced
CorruptMagic ==
    /\ pc = "done"
    /\ origin = "fresh"
    /\ \E m \in BadMagics : Fresh(m \o SubSeq(bytes, 5, Len(bytes)))
    /\ origin' = "corrupted"
    /\ base_len' = Len(bytes)
    /\ base_consumed' = CurrentInput
    /\ base_classfile' = decoded
    /\ UNCHANGED <<overflow_checks, reader>>

\* a buffer that decoded successfully, with more bytes after its end
Extend ==
    /\ pc = "done"
    /\ origin = "fresh"
    /\ \E more \in AddedBytes : Fresh(bytes \o more)
    /\ origin' = "extended"
    /\ base_len' = Len(bytes)
    /\ base_consumed' = CurrentInput
    /\ base_classfile' = decoded
    /\ UNCHANGED <<overflow_checks, reader>>

Next ==
    \/ Magic
    \/ ParseVersion
    \/ ParseConstantPool
    \/ ParseAccessFlags
    \/ ParseThisClass
    \/ ParseSuperClass
    \/ ParseInterfaces
    \/ ParseFields
    \/ ParseMethods
    \/ ParseAttributes
    \/ Truncate
    \/ CorruptMagic
    \/ Extend

Spec == Init /\ [][Next]_vars

\* the statements of classfile_from_bytes: a call, once made, runs them one
\* after the other to its return
Decode ==
    \/ Magic
    \/ ParseVersion
    \/ ParseConstantPool
    \/ ParseAccessFlags
    \/ ParseThisClass
    \/ ParseSuperClass
    \/ ParseInterfaces
    \/ ParseFields
    \/ ParseMethods
    \/ ParseAttributes

\* the call has not returned
Running == pc \notin {"done", "error", "panic"}

\* weak fairness of Decode, WF_vars(Decode), with ENABLED <<Decode>>_vars
\* written out: each statement binds its locals or returns, so a statement
\* can run exactly while the call has not returned
DecodeFairness == <>[]Running => []<><<Decode>>_vars

LiveSpec == Init /\ [][Next]_vars /\ DecodeFairness

-----------------------------------------------------------------------------
(* The ClassParser on its own: a parser over each buffer, then any calls *)

MaxBuf == 7         \* longest buffer handed to ClassParser::new

\* the buffers 11, 11 22, 11 22 33, .. and the same with a leading FF
RECURSIVE Ramp(_)
Ramp(n) == IF n = 0 THEN <<>> ELSE Ramp(n - 1) \o <<17 * n>>

ParserBuffers ==
    { Ramp(n) : n \in 0..MaxBuf } \cup { <<255>> \o Ramp(n) : n \in 0..(MaxBuf - 1) }

ParserInit ==
    /\ parser \in { ClassParser_new(b) : b \in ParserBuffers }
    /\ read = NoRead
    /\ bytes = <<>>
    /\ overflow_checks = FALSE
    /\ pc = "magic"
    /\ inputs = <<>>
    /\ version = <<>>
    /\ constant_pool = <<>>
    /\ access_flags = 0
    /\ this_class = 0
    /\ super_class = 0
    /\ interfaces = <<>>
    /\ fields = <<>>
    /\ methods = <<>>
    /\ attributes = <<>>
    /\ err = NoError
    /\ origin = "fresh"
    /\ base_len = 0
    /\ base_consumed = 0
    /\ base_classfile = <<>>

ParserNext == u1 \/ u2 \/ u4

ParserSpec == ParserInit /\ [][ParserNext]_vars

-----------------------------------------------------------------------------
(* What the properties read off a state *)

Terminal == pc \in {"done", "error", "panic"}

\* the big-endian 16- and 32-bit fields of the buffer at offset p
U16At(p) == bytes[p + 1] * 256 + bytes[p + 2]
U32At(p) == <<U16At(p), U16At(p + 2)>>

\* the constant pool is bound: input_3 exists
PoolDecoded == Len(inputs) >= 3

\* the value of the pool count field, which follows the version
PoolCountField == U16At(inputs[2])

\* the tag byte of the first pool entry on the wire
FirstEntryTag == bytes[inputs[2] + 3]

\* classfile_from_bytes has reached the class-level attributes (input_9 is
\* bound) and the buffer holds the count and the name index of a first one
AtFirstClassAttribute ==
    /\ Len(inputs) >= 9
    /\ Len(bytes) >= inputs[9] + 4
    /\ U16At(inputs[9]) >= 1

FirstAttributeOffset == inputs[9] + 2
FirstAttributeNameIndex == U16At(FirstAttributeOffset)

\* nesting of the recursive shapes in a decoded tree: Code in Code, array in
\* array, annotation in annotation
RECURSIVE MaxOver(_, _)
MaxOver(s, i) ==
    IF i > Len(s) THEN 0
    ELSE LET rest == MaxOver(s, i + 1) IN IF s[i] > rest THEN s[i] ELSE rest

RECURSIVE Depth(_)
Depth(node) ==
    (IF node.kind \in {"Code", "Array", "Annotation"} THEN 1 ELSE 0)
    + MaxOver([i \in 1..Len(node.items) |-> Depth(node.items[i])], 1)

-----------------------------------------------------------------------------
(* Properties *)

\* C1: the 64-bit value decoded for a Long (tag 5) or Double (tag 6) entry
\* read from the halves (high, low) is (high << 32) | low, the shift being
\* 32 whatever low is
C1_WideValueIsHighShl32OrLow ==
    (PoolDecoded /\ Len(constant_pool) >= 1 /\ FirstEntryTag \in {5, 6}) =>
        constant_pool[1].bits =
            Shl64(Bits32(U32At(inputs[2] + 3)), 32) \cup Bits32(U32At(inputs[2] + 7))

\* C2: when the pool count field holds N >= 1, N - 1 entries are decoded
\* before the access flags are read
C2_PoolHasCountMinusOneEntries ==
    (PoolDecoded /\ PoolCountField >= 1) => Len(constant_pool) = PoolCountField - 1

\* C3: the minimal buffer (magic, version 0.52, pool count 1, all else zero)
\* decodes successfully to an empty pool and empty lists
C3_MinimalBufferDecodes ==
    (bytes = MinimalBuffer /\ Terminal) =>
        /\ pc = "done"
        /\ constant_pool = <<>>
        /\ interfaces = <<>> /\ fields = <<>> /\ methods = <<>> /\ attributes = <<>>

\* C4: an attribute whose name index is 0 or past the decoded pool makes the
\* decode return an error value (here for the first class-level attribute)
C4_BadNameIndexIsAnError ==
    (AtFirstClassAttribute /\ Terminal
       /\ (FirstAttributeNameIndex = 0 \/ FirstAttributeNameIndex > Len(constant_pool))) =>
        pc = "error"

\* C5: a decoded attribute's body consumed exactly the declared length (here
\* for a class file with one class-level attribute)
C5_BodyConsumesDeclaredLength ==
    (pc = "done" /\ Len(attributes) = 1) =>
        LET declared == U32At(FirstAttributeOffset + 2)
            body == FirstAttributeOffset + 6
        IN  declared[1] = 0 /\ inputs[10] - body = declared[2]

\* C6: classfile_from_bytes never aborts abnormally: it ends with a decoded
\* Classfile or an error value
C6_NeverAborts == pc # "panic"

\* C7: a successfully decoded input cut at a byte boundary before its end
\* fails with unexpected-end-of-input detected at or before the cut
C7_TruncationIsEof ==
    (origin = "truncated" /\ Terminal) =>
        pc = "error" /\ err.kind = "Eof" /\ err.pos <= Len(bytes)

\* C8: a buffer whose first four bytes are not CA FE BA BE (or that has
\* fewer than four bytes) fails with the error of the magic tag at offset 0,
\* and no later statement of classfile_from_bytes runs
C8_BadMagicIsMagicMismatch ==
    (pc # "magic" /\ (Len(bytes) < 4 \/ SubSeq(bytes, 1, 4) # MAGIC)) =>
        /\ pc = "error"
        /\ err = [st |-> "Error", kind |-> "Tag", pos |-> 0]
        /\ inputs = <<>>
        /\ version = <<>> /\ constant_pool = <<>>

C8_Witness ==
    /\ origin = "corrupted" /\ pc = "error" /\ err.kind = "Tag"
    /\ Len(bytes) > 4 /\ SubSeq(bytes, 1, 2) = SubSeq(MAGIC, 1, 2)

\* C9: an attribute whose name index refers to an existing pool entry that
\* is not Utf8 fails with the failure of the let-else (ErrorKind::IsNot) at
\* the attribute's own offset, at every offset of the buffer and whether or
\* not a length field follows the name index; at class level that failure
\* is the result of the whole decode
C9_NonUtf8NameIsTypeMismatch ==
    /\ pc = "access_flags" =>
         \A p \in 0..(Len(bytes) - 2) :
            (U16At(p) \in 1..Len(constant_pool) /\ constant_pool[U16At(p)].tag # "Utf8")
               => attribute_from_bytes(bytes, p, Ctx) = Failure("IsNot", p)
    /\ (AtFirstClassAttribute /\ Terminal
          /\ FirstAttributeNameIndex \in 1..Len(constant_pool)
          /\ constant_pool[FirstAttributeNameIndex].tag # "Utf8") =>
         /\ pc = "error"
         /\ err = [st |-> "Failure", kind |-> "IsNot", pos |-> FirstAttributeOffset]
         /\ Len(inputs) = 9

\* the failing attribute is the last thing in the buffer: no length field
\* follows its name index
C9_Witness ==
    /\ AtFirstClassAttribute /\ pc = "error" /\ err.kind = "IsNot"
    /\ constant_pool[FirstAttributeNameIndex].tag = "Integer"
    /\ Len(bytes) - (FirstAttributeOffset + 2) < 4

\* C10: nesting is capped: an input nested as deep as the harness builds
\* (MaxNest, one more than a limit of MaxNest - 1) does not decode
C10_NestingIsCapped ==
    pc = "done" => \A i \in 1..Len(attributes) : Depth(attributes[i]) < MaxNest

\* the tag bytes that select no constant-pool entry
UnknownConstantTags == (0..255) \ ({1} \cup (3..12) \cup (15..20))

\* the result of decoding the first k entries of the pool
PoolPrefix(k) ==
    count_loop("constant_pool_entry", bytes, inputs[2] + 2, k, <<>>, Ctx)

\* C11: a pool entry whose tag byte is none of 1, 3-12, 15-20 fails with
\* the error of the tag match (Err::Error, ErrorKind::Tag) at the offset of
\* the tag byte, whatever follows it; when the entries before it decode, that
\* error is the result of the whole decode, no pool is bound and no later
\* statement runs
C11_UnknownConstantTagFails ==
    /\ (pc = "constant_pool" /\ origin = "fresh") =>
         \A t \in UnknownConstantTags : \A p \in 0..Len(bytes) :
            constant_pool_entry_match(t, bytes, p, p + 1, overflow_checks)
                = Error("Tag", p)
    /\ (Len(inputs) = 2 /\ Terminal /\ Len(bytes) >= inputs[2] + 2) =>
         \A k \in 0..(PoolCountField - 1) :
            (/\ PoolPrefix(k).st = "Ok"
             /\ PoolPrefix(k).pos < Len(bytes)
             /\ bytes[PoolPrefix(k).pos + 1] \in UnknownConstantTags) =>
                /\ pc = "error"
                /\ err = [st |-> "Error", kind |-> "Tag", pos |-> PoolPrefix(k).pos]
                /\ constant_pool = <<>>

\* the second entry of the pool has the unused tag 13
C11_Witness ==
    /\ Len(inputs) = 2 /\ pc = "error" /\ err.kind = "Tag"
    /\ err.pos > inputs[2] + 2
    /\ bytes[err.pos + 1] = 13

\* the texts attribute_from_bytes matches
KnownNames == { AttributeNames[n] : n \in DOMAIN AttributeNames }

\* the name of the attribute at offset p converts to a text that is no
\* known name, and its length field is in the buffer
UnknownNameAt(p) ==
    /\ p + 6 <= Len(bytes)
    /\ U16At(p) \in 1..Len(constant_pool)
    /\ constant_pool[U16At(p)].tag = "Utf8"
    /\ mutf8_to_utf8(constant_pool[U16At(p)].bytes).ok
    /\ to_str_lossy(mutf8_to_utf8(constant_pool[U16At(p)].bytes).text) \notin KnownNames

\* C12: an attribute whose name converts to a text outside the known names
\* fails with the error of the name match (Err::Failure, ErrorKind::Tag, at
\* the name's text in the pool): so does attribute_from_bytes at every
\* offset, and so does the whole decode when the attribute sits at class
\* level, in a field, in a method, in a Code attribute or in a record
\* component; at no site is it kept or skipped
C12_UnknownAttributeFailsAtEverySite ==
    /\ (pc = "access_flags" /\ origin = "fresh") =>
         \A p \in 0..Len(bytes) :
            UnknownNameAt(p) =>
                attribute_from_bytes(bytes, p, Ctx)
                    = Failure("Tag", constant_pool[U16At(p)].off)
    /\ (Terminal /\ bytes \in UnknownSiteInputs) =>
         /\ pc = "error"
         /\ err = [st |-> "Failure", kind |-> "Tag", pos |-> constant_pool[1].off]

\* the unrecognized name is that of an attribute of a record component
C12_Witness ==
    /\ pc = "error" /\ err.st = "Failure" /\ err.kind = "Tag"
    /\ bytes = UnknownSiteFile("component", <<70, 111, 111>>)
    /\ Len(inputs) = 9

\* the locals of classfile_from_bytes that the statements after the first
\* k bind are still unbound
UnboundAfter(k) ==
    /\ k < 2 => version = <<>>
    /\ k < 3 => constant_pool = <<>>
    /\ k < 7 => interfaces = <<>>
    /\ k < 8 => fields = <<>>
    /\ k < 9 => methods = <<>>
    /\ k < 10 => attributes = <<>>

\* C13: the error of the first nested decoder that fails (a pool entry, a
\* field, a method, an attribute, an annotation, an element value, a target
\* info) is the result of classfile_from_bytes, with its kind and its
\* offset, although more input follows the fault; once an error is
\* returned no statement runs, nothing after the failing statement is
\* bound, and no Classfile is returned
C13_FirstErrorIsTheResult ==
    /\ Terminal =>
         \A f \in Faults :
            f.bytes = bytes =>
                /\ pc = "error"
                /\ err = [st |-> f.st, kind |-> f.kind, pos |-> f.pos]
    /\ pc = "error" =>
         /\ err.st \in {"Error", "Failure"}
         /\ Len(inputs) < 10
         /\ UnboundAfter(Len(inputs))
         /\ ~ ENABLED Next

\* the failing decoder is target_info_from_bytes, three levels below the
\* class-level attribute list, and a valid type annotation follows it
C13_Witness ==
    /\ pc = "error" /\ err.kind = "Tag" /\ err.st = "Error"
    /\ Len(inputs) = 9
    /\ err.pos > inputs[9] + 8
    /\ bytes \in FaultInputs

\* C14: a read of width n fails if and only if fewer than n bytes remain
\* from the position it is made at to the end of the buffer; a read of
\* exactly the last n bytes succeeds
C14_ReadFailsIffTooFewBytes ==
    read.op # "none" =>
        (~read.ok <=> Len(parser.bytes) - read.at < read.width)

\* C15: the position never decreases, and a successful read of width n
\* leaves it exactly n past where the read was made
C15_ReadAdvancesByWidth ==
    read.op # "none" =>
        /\ parser.position >= read.at
        /\ read.ok => parser.position = read.at + read.width

\* the first class-level attribute is named by a Utf8 entry holding the
\* text, and its header and a body of these bytes are in the buffer
FirstAttributeIs(text, body) ==
    /\ AtFirstClassAttribute
    /\ FirstAttributeNameIndex \in 1..Len(constant_pool)
    /\ constant_pool[FirstAttributeNameIndex].tag = "Utf8"
    /\ constant_pool[FirstAttributeNameIndex].bytes = text
    /\ Len(bytes) >= FirstAttributeOffset + 6 + Len(body)
    /\ SubSeq(bytes, FirstAttributeOffset + 7, FirstAttributeOffset + 6 + Len(body)) = body

\* C16: a StackMapTable body is decoded frame by frame: one frame FF with
\* offset_delta 0, no locals and no stack decodes to a FullFrame with empty
\* locals and stack; one frame 3F decodes to a SameFrame; one frame with
\* the reserved leading byte 80 fails with an error value
C16_StackMapTableDecodesByFrame ==
    /\ (Terminal /\ FirstAttributeIs(AttributeNames.StackMapTable,
                                     <<0, 1, 255, 0, 0, 0, 0, 0, 0>>)) =>
         /\ pc = "done"
         /\ attributes[1].items[1].kind = "StackMapTable"
         /\ Len(attributes[1].items[1].items) = 1
         /\ attributes[1].items[1].items[1].kind = "FullFrame"
         /\ attributes[1].items[1].items[1].items = <<>>
    /\ (Terminal /\ FirstAttributeIs(AttributeNames.StackMapTable, <<0, 1, 63>>)) =>
         /\ pc = "done"
         /\ attributes[1].items[1].items[1].kind = "SameFrame"
    /\ (Terminal /\ FirstAttributeIs(AttributeNames.StackMapTable, <<0, 1, 128>>)) =>
         pc = "error"

\* B C D F I J S Z s
ConstValueTags == {66, 67, 68, 70, 73, 74, 83, 90, 115}

\* k 2-byte indices read from offset q into a value of this kind, or the
\* end of input at the first index that is not whole
IndicesAt(kind, k, q) ==
    IF Len(bytes) >= q + 2 * k
    THEN Ok(q + 2 * k, Node(kind, [i \in 1..k |-> U16At(q + 2 * (i - 1))], <<>>))
    ELSE Error("Eof", q + 2 * ((Len(bytes) - q) \div 2))

\* a result r wrapped into a value of this kind when it is Ok
Wrapped(kind, r, items) == IF r.st = "Ok" THEN Ok(r.pos, Node(kind, <<>>, items)) ELSE r

\* what the claim has element_value_from_bytes return for the tag byte t
\* read at offset p
ElementValueFor(t, p) ==
    CASE t \in ConstValueTags -> IndicesAt("ConstValue", 1, p + 1)
      [] t = 101 -> IndicesAt("EnumConst", 2, p + 1)                     \* e
      [] t = 99 -> IndicesAt("ClassInfo", 1, p + 1)                      \* c
      [] t = 64 ->                                                       \* @
           Wrapped("Annotation", annotation_from_bytes(bytes, p + 1, Ctx),
                   <<annotation_from_bytes(bytes, p + 1, Ctx).val>>)
      [] t = 91 ->                                                       \* [
           IF Len(bytes) < p + 3 THEN Error("Eof", p + 1)
           ELSE Wrapped("Array",
                   count_loop("element_value", bytes, p + 3, U16At(p + 1), <<>>, Ctx),
                   count_loop("element_value", bytes, p + 3, U16At(p + 1), <<>>, Ctx).val)
      [] OTHER -> Failure("Tag", p)

ElementValueAt(p) == ElementValueFor(bytes[p + 1], p)

\* C17: element_value_from_bytes dispatches on its tag byte as the claim
\* lists, for each of the 256 tag bytes at every offset of every buffer and
\* for every byte of a buffer read as a tag: B C D F I J S Z s and c read one
\* index, e reads two, @ an annotation, [ a counted sequence of values, and
\* any other byte fails with Err::Failure(ErrorKind::Tag) at the tag byte;
\* the value of a class-level AnnotationDefault is the value so decoded
\* (the build profile plays no part in element_value_from_bytes)
C17_ElementValueDispatch ==
    /\ (pc = "magic" /\ origin = "fresh" /\ ~overflow_checks) =>
         \A p \in 0..(Len(bytes) - 1) :
            /\ element_value_from_bytes(bytes, p, Ctx) = ElementValueAt(p)
            /\ \A t \in 0..255 :
                  element_value_match(t, bytes, p, p + 1, Ctx) = ElementValueFor(t, p)
    /\ (Terminal /\ FirstAttributeIs(AttributeNames.AnnotationDefault, <<>>)
          /\ U16At(inputs[9]) = 1 /\ Len(bytes) > FirstAttributeOffset + 6) =>
         IF ElementValueAt(FirstAttributeOffset + 6).st = "Ok"
         THEN /\ pc = "done"
              /\ attributes[1].items[1].items
                    = <<ElementValueAt(FirstAttributeOffset + 6).val>>
              /\ inputs[10] = ElementValueAt(FirstAttributeOffset + 6).pos
         ELSE /\ pc = "error"
              /\ err.kind = ElementValueAt(FirstAttributeOffset + 6).kind
              /\ err.pos = ElementValueAt(FirstAttributeOffset + 6).pos

\* an enum constant decoded as the value of an AnnotationDefault
C17_Witness ==
    /\ pc = "done" /\ Len(attributes) = 1
    /\ attributes[1].items[1].kind = "AnnotationDefault"
    /\ attributes[1].items[1].items[1].kind = "EnumConst"
    /\ Len(attributes[1].items[1].items[1].data) = 2

\* the claim's table: the target_type ranges and the shape each selects
TargetShapes ==
    { [lo |-> 0,  hi |-> 1,  kind |-> "TypeParameter"],
      [lo |-> 16, hi |-> 16, kind |-> "Supertype"],
      [lo |-> 17, hi |-> 18, kind |-> "TypeParameterBound"],
      [lo |-> 19, hi |-> 21, kind |-> "Empty"],
      [lo |-> 22, hi |-> 22, kind |-> "FormalParameter"],
      [lo |-> 23, hi |-> 23, kind |-> "Throws"],
      [lo |-> 64, hi |-> 65, kind |-> "LocalVarTarget"],
      [lo |-> 66, hi |-> 66, kind |-> "Catch"],
      [lo |-> 67, hi |-> 70, kind |-> "Offset"],
      [lo |-> 71, hi |-> 75, kind |-> "TypeArgument"] }

ShapesOf(target_type) == { r \in TargetShapes : r.lo <= target_type /\ target_type <= r.hi }

\* fields of the given widths (1 or 2 bytes) read from offset q on, the
\* values read so far in acc: a value of this kind, or the end of input at
\* the first field that is not whole
RECURSIVE FieldsAt(_, _, _, _)
FieldsAt(kind, widths, q, acc) ==
    IF widths = <<>> THEN Ok(q, Node(kind, acc, <<>>))
    ELSE IF Len(bytes) < q + widths[1] THEN Error("Eof", q)
    ELSE FieldsAt(kind, Tail(widths), q + widths[1],
                  Append(acc, IF widths[1] = 1 THEN bytes[q + 1] ELSE U16At(q)))

\* a table of n entries of three 2-byte fields from offset q on
LocalVarTableAt(q, n) ==
    IF Len(bytes) >= q + 6 * n
    THEN Ok(q + 6 * n,
            Node("LocalVarTarget", <<>>,
                 [i \in 1..n |-> Node("LocalVar",
                                      [j \in 1..3 |-> U16At(q + 6 * (i - 1) + 2 * (j - 1))],
                                      <<>>)]))
    ELSE Error("Eof", q + 2 * ((Len(bytes) - q) \div 2))

\* what the table has target_info_from_bytes return at offset p
TargetInfoFor(kind, p) ==
    CASE kind \in {"TypeParameter", "FormalParameter"} -> FieldsAt(kind, <<1>>, p, <<>>)
      [] kind \in {"Supertype", "Throws", "Catch", "Offset"} -> FieldsAt(kind, <<2>>, p, <<>>)
      [] kind = "TypeParameterBound" -> FieldsAt(kind, <<1, 1>>, p, <<>>)
      [] kind = "Empty" -> Ok(p, Node("Empty", <<>>, <<>>))
      [] kind = "LocalVarTarget" ->
           IF Len(bytes) < p + 2 THEN Error("Eof", p)
           ELSE LocalVarTableAt(p + 2, U16At(p))
      [] kind = "TypeArgument" -> FieldsAt(kind, <<2, 1>>, p, <<>>)
      [] kind = "None" -> Error("Tag", p)

\* the shape the table selects for a target_type, "None" when no range
\* holds it
TargetKind(target_type) ==
    IF ShapesOf(target_type) = {} THEN "None"
    ELSE (CHOOSE r \in ShapesOf(target_type) : TRUE).kind

TargetInfoAt(target_type, p) == TargetInfoFor(TargetKind(target_type), p)

\* C18: the ranges of the table are pairwise disjoint; for each of the 256
\* target_type values, at every offset, target_info_from_bytes returns the
\* shape of the one range that holds it (Empty consuming nothing), and
\* Err::Error(ErrorKind::Tag) at its input for a value in no range; the
\* target info of a class-level type annotation is the one so selected
\* (the build profile plays no part in target_info_from_bytes)
C18_TargetInfoByRange ==
    /\ \A r1, r2 \in TargetShapes : r1 # r2 => (r1.hi < r2.lo \/ r2.hi < r1.lo)
    /\ (pc = "magic" /\ origin = "fresh" /\ ~overflow_checks) =>
         \A target_type \in 0..255 :
            LET kind == TargetKind(target_type)
            IN  \A p \in 0..Len(bytes) :
                   target_info_from_bytes(bytes, p, target_type, Ctx)
                       = TargetInfoFor(kind, p)
    /\ (Terminal
          /\ (\/ FirstAttributeIs(AttributeNames.RuntimeVisibleTypeAnnotations, <<0, 1>>)
              \/ FirstAttributeIs(AttributeNames.RuntimeInvisibleTypeAnnotations, <<0, 1>>))
          /\ Len(bytes) > FirstAttributeOffset + 8) =>
         IF TargetInfoAt(bytes[FirstAttributeOffset + 9], FirstAttributeOffset + 9).st = "Ok"
         THEN /\ pc \in {"done", "error"}
              /\ pc = "done" =>
                   attributes[1].items[1].items[1].items[1]
                     = TargetInfoAt(bytes[FirstAttributeOffset + 9],
                                    FirstAttributeOffset + 9).val
              /\ pc = "error" =>
                   err.pos >= TargetInfoAt(bytes[FirstAttributeOffset + 9],
                                           FirstAttributeOffset + 9).pos
         ELSE /\ pc = "error"
              /\ err.st = "Error"
              /\ err.kind = TargetInfoAt(bytes[FirstAttributeOffset + 9],
                                         FirstAttributeOffset + 9).kind
              /\ err.pos = TargetInfoAt(bytes[FirstAttributeOffset + 9],
                                        FirstAttributeOffset + 9).pos

\* a type annotation with target_type 0x47 decoded to a TypeArgument
C18_Witness ==
    /\ pc = "done" /\ Len(attributes) = 1
    /\ attributes[1].items[1].kind = "RuntimeInvisibleTypeAnnotations"
    /\ attributes[1].items[1].items[1].data[1] = 71
    /\ attributes[1].items[1].items[1].items[1].kind = "TypeArgument"

\* the sections in the order of the claim, then the return
SectionOrder ==
    <<"magic", "version", "constant_pool", "access_flags", "this_class",
      "super_class", "interfaces", "fields", "methods", "attributes", "done">>

\* C19: the sections are read in the fixed order, each from where the one
\* before it ended; once the pool statement is done the pool holds every
\* entry the count field announces, decoded from the bytes after it, and
\* stays so while fields, methods and attributes are decoded; attribute
\* decoders at class level, in a field and in a record component resolve
\* names against that whole pool, its last entry included
C19_SectionsInOrderPoolFirst ==
    /\ pc \notin {"error", "panic"} => pc = SectionOrder[Len(inputs) + 1]
    /\ Len(inputs) <= 10
    /\ inputs # <<>> => inputs[1] = Len(MAGIC)
    /\ \A i \in 1..(Len(inputs) - 1) : inputs[i] <= inputs[i + 1]
    /\ Len(inputs) < 3 => (fields = <<>> /\ methods = <<>> /\ attributes = <<>>)
    /\ PoolDecoded =>
         /\ Len(constant_pool) = PoolCountField
         /\ PoolPrefix(PoolCountField) = Ok(inputs[3], constant_pool)
         /\ Ctx.pool = constant_pool
    /\ (Terminal /\ FirstAttributeIs(AttributeNames.Deprecated, <<>>)
          /\ U16At(inputs[9]) = 1) =>
         /\ pc = "done"
         /\ attributes = <<Node("Attribute", <<>>, <<Node("Deprecated", <<>>, <<>>)>>)>>
    /\ (Terminal /\ bytes = SiteFile("field", AttributeNames.Deprecated, AttrBytes(1, 0, <<>>))) =>
         /\ pc = "done"
         /\ fields[1].items = <<Node("Attribute", <<>>, <<Node("Deprecated", <<>>, <<>>)>>)>>
    /\ (Terminal /\ bytes = UnknownSiteFile("component", <<70, 111, 111>>)) =>
         (pc = "error" /\ err.kind = "Tag" /\ err.pos = constant_pool[1].off)

\* a complete decode in which a field's attribute was named through the pool
C19_Witness ==
    /\ pc = "done" /\ Len(inputs) = 10
    /\ Len(constant_pool) = 2
    /\ Len(fields) = 1 /\ Len(fields[1].items) = 1

\* the first pool entry is a Utf8 entry whose length field is in the buffer
\* and declares more bytes than follow it
FirstEntryIsShortUtf8 ==
    /\ Len(inputs) >= 2
    /\ Len(bytes) >= inputs[2] + 5
    /\ PoolCountField >= 1
    /\ FirstEntryTag = 1
    /\ Len(bytes) - (inputs[2] + 5) < U16At(inputs[2] + 3)

\* C20: when the first pool entry is a Utf8 entry that declares more bytes
\* than the buffer still holds (5 declared, 3 left, in the scenario), the
\* decode fails with Err::Error(ErrorKind::Eof) whose position is the offset
\* right after the 2-byte length field: not that of the tag, not the end of
\* the buffer
C20_ShortUtf8IsEofAfterLength ==
    (Terminal /\ FirstEntryIsShortUtf8) =>
        /\ pc = "error"
        /\ Len(inputs) = 2
        /\ err = [st |-> "Error", kind |-> "Eof", pos |-> inputs[2] + 5]

\* the scenario: tag 1, length 5, then 61 62 63 and the end of the buffer
C20_Witness ==
    /\ pc = "error" /\ err.kind = "Eof"
    /\ bytes = Header \o U16(1) \o <<1, 0, 5, 97, 98, 99>>
    /\ err.pos = Len(bytes) - 3

\* the sum of the first k numbers of a sequence
RECURSIVE SumTo(_, _)
SumTo(s, k) == IF k = 0 THEN 0 ELSE SumTo(s, k - 1) + s[k]

\* the bytes a decoded element value takes on the wire: the tag, then one
\* index, two indices, a counted list of values, or an annotation (type
\* index, pair count, and per pair a name index and a value)
RECURSIVE ValueSize(_)
ValueSize(value) ==
    CASE value.kind \in {"ConstValue", "ClassInfo"} -> 3
      [] value.kind = "EnumConst" -> 5
      [] value.kind = "Array" ->
           3 + SumTo([i \in 1..Len(value.items) |-> ValueSize(value.items[i])],
                     Len(value.items))
      [] value.kind = "Annotation" ->
           5 + SumTo([i \in 1..Len(value.items[1].items) |->
                         2 + ValueSize(value.items[1].items[i].items[1])],
                     Len(value.items[1].items))

\* the offset of element i of an array whose tag is at offset p
ElementOffset(array, p, i) ==
    p + 3 + SumTo([j \in 1..Len(array.items) |-> ValueSize(array.items[j])], i - 1)

EmptyArray == Node("Array", <<>>, <<>>)

\* [ 2 [ 0 [ 0
TwoEmptyArrays == <<91, 0, 2, 91, 0, 0, 91, 0, 0>>

\* C21: the nine bytes 5B 0002 5B 0000 5B 0000 decode, at any offset, to an
\* array of two empty arrays and are consumed exactly; as the value of a
\* class-level AnnotationDefault they are the decoded value and the decode
\* goes on right after them.  Every element value that decodes consumes the
\* bytes of its own encoding, and element i of a decoded array is what
\* element_value_from_bytes returns at the byte after element i - 1 (after
\* the count for i = 1), inner arrays included
C21_NestedArraysResumeAfterInner ==
    /\ (pc = "magic" /\ origin = "fresh" /\ ~overflow_checks) =>
         \A p \in 0..(Len(bytes) - 1) :
            LET r == element_value_from_bytes(bytes, p, Ctx)
            IN  /\ (p + 9 <= Len(bytes) /\ SubSeq(bytes, p + 1, p + 9) = TwoEmptyArrays) =>
                      r = Ok(p + 9, Node("Array", <<>>, <<EmptyArray, EmptyArray>>))
                /\ r.st = "Ok" =>
                      /\ r.pos = p + ValueSize(r.val)
                      /\ r.val.kind = "Array" =>
                            /\ bytes[p + 1] = 91
                            /\ Len(r.val.items) = U16At(p + 1)
                            /\ \A i \in 1..Len(r.val.items) :
                                  element_value_from_bytes(bytes, ElementOffset(r.val, p, i), Ctx)
                                      = Ok(ElementOffset(r.val, p, i + 1), r.val.items[i])
    /\ (Terminal /\ FirstAttributeIs(AttributeNames.AnnotationDefault, TwoEmptyArrays)
          /\ U16At(inputs[9]) = 1) =>
         /\ pc = "done"
         /\ attributes[1].items[1].items
               = <<Node("Array", <<>>, <<EmptyArray, EmptyArray>>)>>
         /\ inputs[10] = FirstAttributeOffset + 6 + 9

\* the scenario decoded as the value of a class-level AnnotationDefault
C21_Witness ==
    /\ pc = "done" /\ Len(attributes) = 1
    /\ attributes[1].items[1].kind = "AnnotationDefault"
    /\ attributes[1].items[1].items[1].kind = "Array"
    /\ Len(attributes[1].items[1].items[1].items) = 2
    /\ attributes[1].items[1].items[1].items[2] = EmptyArray
    /\ inputs[10] - (FirstAttributeOffset + 6) = 9

\* the bytes the pool entry whose tag is at offset q takes on the wire
EntrySize(q) ==
    CASE bytes[q + 1] = 1 -> 3 + U16At(q + 1)
      [] bytes[q + 1] \in {5, 6} -> 9
      [] bytes[q + 1] \in {3, 4, 9, 10, 11, 12, 17, 18} -> 5
      [] bytes[q + 1] = 15 -> 4
      [] bytes[q + 1] \in {7, 8, 16, 19, 20} -> 3

\* the offset of the k-th pool entry on the wire, k = 1 the one after the
\* count field
RECURSIVE EntryAt(_)
EntryAt(k) == IF k = 1 THEN inputs[2] + 2 ELSE EntryAt(k - 1) + EntrySize(EntryAt(k - 1))

\* the text of the Utf8 entry whose tag is at offset q
WireText(q) == SubSeq(bytes, q + 4, q + 3 + U16At(q + 1))

\* the variant a tag byte selects
TagName(t) ==
    CASE t = 1 -> "Utf8" [] t = 3 -> "Integer" [] t = 4 -> "Float" [] t = 5 -> "Long"
      [] t = 6 -> "Double" [] t = 7 -> "Class" [] t = 8 -> "String" [] t = 9 -> "FieldRef"
      [] t = 10 -> "MethodRef" [] t = 11 -> "InstanceMethodRef" [] t = 12 -> "NameAndType"
      [] t = 15 -> "MethodHandle" [] t = 16 -> "MethodType" [] t = 17 -> "Dynamic"
      [] t = 18 -> "InvokeDynamic" [] t = 19 -> "Module" [] t = 20 -> "Package"

\* C22: the k-th place of the decoded pool holds the k-th entry on the wire,
\* a Long or Double entry taking one place like any other; the name index k
\* of the first class-level attribute selects that k-th wire entry: when it
\* is no Utf8 entry the decode fails with the let-else failure, when it is,
\* the decoded attribute is the one its text names (or the failure points at
\* its text when the text names none), and the index itself never faults
C22_NameIndexIsWireOrder ==
    /\ PoolDecoded =>
         \A k \in 1..Len(constant_pool) :
            /\ constant_pool[k].tag = TagName(bytes[EntryAt(k) + 1])
            /\ constant_pool_entry_from_bytes(bytes, EntryAt(k), overflow_checks)
                  = Ok(EntryAt(k) + EntrySize(EntryAt(k)), constant_pool[k])
            /\ constant_pool[k].tag = "Utf8" =>
                  /\ constant_pool[k].bytes = WireText(EntryAt(k))
                  /\ constant_pool[k].off = EntryAt(k) + 3
    /\ (AtFirstClassAttribute /\ Terminal
          /\ FirstAttributeNameIndex \in 1..Len(constant_pool)) =>
         LET q == EntryAt(FirstAttributeNameIndex)
         IN  /\ pc = "panic" => err.pos # FirstAttributeOffset
             /\ IF bytes[q + 1] # 1
                THEN /\ pc = "error"
                     /\ err = [st |-> "Failure", kind |-> "IsNot",
                               pos |-> FirstAttributeOffset]
                ELSE /\ pc = "done" => AttributeNames[attributes[1].items[1].kind] = WireText(q)
                     /\ (/\ pc = "error" /\ WireText(q) \notin KnownNames
                         /\ Len(bytes) >= FirstAttributeOffset + 6) =>
                            (err.st = "Failure" /\ err.pos = q + 3)

\* the name index 2 selected the text that follows a Long entry on the wire
C22_Witness ==
    /\ pc = "done" /\ Len(attributes) = 1
    /\ constant_pool[1].tag = "Long"
    /\ FirstAttributeNameIndex = 2
    /\ attributes[1].items[1].kind = "Deprecated"

\* the parsers that decode the elements of a count-prefixed list
ElementParsers ==
    { "constant_pool_entry", "be_u16", "field", "method", "attribute", "annotation",
      "element_value", "element_value_pair", "type_annotation", "type_path_segment",
      "local_var", "exception_table_entry", "inner_class", "line_number",
      "local_variable", "local_variable_type", "method_parameter", "module_require",
      "module_export", "module_opens", "module_provides", "bootstrap_method",
      "record_component" }

\* the structures of a decoded tree, and of a list of trees
RECURSIVE Elements(_)
Elements(node) ==
    1 + SumTo([i \in 1..Len(node.items) |-> Elements(node.items[i])], Len(node.items))

ElementsOf(list) == SumTo([i \in 1..Len(list) |-> Elements(list[i])], Len(list))

\* every element parser, at every offset of every buffer, fails or ends
\* strictly after where it began and inside the buffer; the statements of a
\* call are at most ten and their inputs never move back or past the end;
\* a decoded Classfile holds no more structures than bytes were consumed
DecodeMakesProgress ==
    /\ (pc = "access_flags" /\ origin = "fresh") =>
         \A g \in ElementParsers : \A p \in 0..Len(bytes) :
            LET r == parse(g, bytes, p, Ctx)
            IN  r.st = "Ok" => (r.pos > p /\ r.pos <= Len(bytes))
    /\ Len(inputs) <= 10
    /\ \A i \in 1..Len(inputs) :
          /\ inputs[i] <= Len(bytes)
          /\ i > 1 => inputs[i - 1] <= inputs[i]
    /\ pc = "done" =>
          Len(constant_pool) + Len(interfaces) + ElementsOf(fields)
              + ElementsOf(methods) + ElementsOf(attributes) <= inputs[10]

\* no statement runs once the call has returned, and before that the next
\* one can run (evaluated on the buffers whose decode ends in the pool)
StatementRunsUntilReturn ==
    /\ Terminal => ~ ENABLED <<Decode>>_vars
    /\ (Running /\ origin = "fresh" /\ bytes \in GapInputs \cup ShortUtf8Inputs) =>
          ENABLED <<Decode>>_vars

\* C23: a call of classfile_from_bytes on any of the buffers ends (with a
\* Classfile, an error or an abort): every element of a count-prefixed list
\* and every recursive descent consumes at least one byte or fails, so the
\* work is bounded by the length of the input; a call runs at most its ten
\* statements, each binding one more input or returning
C23_DecodeTerminates ==
    /\ []DecodeMakesProgress
    /\ []StatementRunsUntilReturn
    /\ [][Running => (Len(inputs') = Len(inputs) + 1 \/ pc' \in {"error", "panic"})]_vars
    /\ (pc = "magic") ~> Terminal

\* a decode that went down three levels of Code in Code and returned
C23_Witness ==
    /\ pc = "done" /\ Len(attributes) = 1
    /\ attributes[1].items[1].kind = "Code"
    /\ Depth(attributes[1]) >= 3
    /\ inputs[10] = Len(bytes)

\* C24: a read that fails leaves the position where it was, at every step
\* and as recorded by the call; the position is never past the end of the
\* buffer; and a read that succeeds took its bytes from inside the buffer
C24_FailedReadKeepsPosition ==
    /\ [](/\ parser.position <= Len(parser.bytes)
          /\ (read.op # "none" /\ ~read.ok) => parser.position = read.at
          /\ (read.op # "none" /\ read.ok) =>
                /\ read.at + read.width <= Len(parser.bytes)
                /\ Len(read.val) = read.width)
    /\ [][~read'.ok => parser' = parser]_vars

\* a u4 that failed after earlier reads had moved the position
C24_Witness ==
    /\ read.op = "u4" /\ ~read.ok
    /\ parser.position >= 2
    /\ parser.position = read.at
    /\ Len(parser.bytes) - parser.position >= 1

\* the bytes a successful decode returns: the input from input_10 on
Remainder == SubSeq(bytes, inputs[10] + 1, Len(bytes))

\* C25: a successful decode returns the bytes from input_10 to the end of
\* the buffer, however many they are; a buffer that decoded successfully,
\* decoded again with bytes added at its end, decodes successfully to the
\* same Classfile, and what is returned is the earlier remainder followed
\* by the added bytes
C25_AddedBytesJoinTheRemainder ==
    /\ pc = "done" => (Len(inputs) = 10 /\ inputs[10] <= Len(bytes))
    /\ (origin = "fresh" /\ Terminal /\ bytes \in TrailInputs) =>
         /\ pc = "done"
         /\ Len(Remainder) \in 1..MaxTrail
         /\ Remainder = Trail(Len(Remainder))
    /\ (origin = "extended" /\ Terminal) =>
         /\ pc = "done"
         /\ decoded = base_classfile
         /\ Remainder = SubSeq(bytes, base_consumed + 1, base_len)
                          \o SubSeq(bytes, base_len + 1, Len(bytes))

\* a buffer that already left two bytes, decoded again with an attribute
\* header added: the Signature attribute is decoded as before and the
\* remainder holds the eight bytes
C25_Witness ==
    /\ origin = "extended" /\ pc = "done"
    /\ base_len - base_consumed = 2
    /\ Len(attributes) = 1
    /\ Len(Remainder) = 8

=============================================================================
